---- MODULE Spec2Model ----
(***************************************************************************)
(* Blueprint upload pipeline of the manager REST service                   *)
(* (rest-service/manager_rest/resources.py, class BlueprintsUpload).       *)
(*                                                                         *)
(* Every upload request is a process that walks through the statements of  *)
(* do_request; requests interleave at the granularity of the calls that    *)
(* touch the shared file-server root or the storage.  The file-server root *)
(* is split by area: scratch archives, staged application directories,     *)
(* blueprints/{id} and uploaded-blueprints/{id}.  Names are strings, built *)
(* the way the code formats them.                                          *)
(***************************************************************************)
EXTENDS Naturals, Sequences, FiniteSets, TLC

(* ------------------------------ bounds --------------------------------- *)

\* number of upload requests that may be in flight together
NumRequests == 2

Requests == 1..NumRequests

\* blueprint ids a caller may supply or the blueprints manager may generate
BlueprintIds == {"X", "Y"}

\* error details the parser collaborator may raise
ParseErrors == {"bad-node-type", "missing-import"}

\* number of concurrent DeploymentsId.put and BlueprintsId.delete requests
NumClients == 2

Clients == 1..NumClients

\* number of concurrent DeploymentsIdExecutions.post requests
NumStarts == 2

Starts == 1..NumStarts

\* number of concurrent NodeInstancesId.patch requests
NumPatches == 2

Patches == 1..NumPatches

\* version numbers a caller may submit
Versions == 1..(NumPatches + 1)

(* --------------------------- program constants ------------------------- *)

CONVENTION_APPLICATION_BLUEPRINT_FILE == "blueprint.yaml"

\* config.instance().file_server_blueprints_folder / uploaded_blueprints_folder
BLUEPRINTS_FOLDER == "blueprints"
UPLOADED_BLUEPRINTS_FOLDER == "uploaded-blueprints"

\* kinds handled by exceptions_handled
TypedKinds ==
    {"Conflict", "NotFound", "DependentExists", "NonexistentWorkflow",
     "BadParameters", "UnsupportedContentType", "InvalidBlueprint",
     "ExistingRunningExecution", "DeploymentWorkersNotYetInstalled",
     "MissingExecutionParameters", "IllegalAction"}

(* ------------------------------ file trees ----------------------------- *)

NoEntries == <<>>

File(data) == [kind |-> "file", data |-> data]
Dir(entries) == [kind |-> "dir", entries |-> entries]
Zip(members) == [kind |-> "zip", members |-> members]

\* os.path.isdir / os.path.isfile on an entry name of a directory listing
IsDirIn(entries, name) == name \in DOMAIN entries /\ entries[name].kind = "dir"
IsFileIn(entries, name) == name \in DOMAIN entries /\ entries[name].kind # "dir"

\* os.path.join
Join(a, b) == a \o "/" \o b

Put(f, k, v) == [x \in DOMAIN f \cup {k} |-> IF x = k THEN v ELSE f[x]]
Drop(f, k) == [x \in DOMAIN f \ {k} |-> f[x]]

(* ------------------------------ request inputs ------------------------- *)

PluginsDir ==
    Dir(("p1" :> Dir(("a.py" :> File("a")) @@
                     ("sub" :> Dir("b.py" :> File("b"))))) @@
        ("notes.txt" :> File("n")))

\* top levels of the uploaded tar archives
TopEmpty == NoEntries
TopTwo == ("app" :> Dir(NoEntries)) @@ ("README" :> File("r"))
TopFile == "app" :> File("f")
TopNoYaml == "app" :> Dir("other.yaml" :> File("o"))
TopYamlDir == "app" :> Dir("blueprint.yaml" :> Dir(NoEntries))
TopApp == "app" :> Dir(("blueprint.yaml" :> File("y")) @@
                       ("plugins" :> PluginsDir))

TopLevels == {TopEmpty, TopTwo, TopFile, TopNoYaml, TopYamlDir, TopApp}

EmptyBody == [fmt |-> "empty", top |-> NoEntries]
Tar(top) == [fmt |-> "tar", top |-> top]

\* request.data / the decoded chunks of request.input_stream
Bodies == {EmptyBody} \cup {Tar(t) : t \in TopLevels}

\* request.args: without or with the application_file_name argument
RequestArgs == {NoEntries, "application_file_name" :> "other%2Eyaml"}

\* config.instance().file_server_root
FILE_SERVER_ROOT == "/srv"

(* ------------------------------- state --------------------------------- *)

VARIABLES
    pc,                   \* position of each request in do_request
    transfer_encoded,     \* 'Transfer-Encoding' in request.headers
    request_data,         \* request.data / request.input_stream, until read
    request_args,         \* request.args
    archive_target_path,  \* do_request local: the scratch archive path
    tempdir,              \* _extract_file_to_file_server local
    application_dir,      \* do_request local: the staged directory name
    application_file,     \* _prepare_and_submit_blueprint local
    blueprint_id,         \* id under which publish_blueprint was asked to insert
    dsl_result,           \* what the parser collaborator answered the request
    outcome,              \* pending or final result of do_request
    archives,             \* {root}/<scratch name>    -> file data
    staged,               \* {root}/<staged dir name> -> directory entries
    blueprints,           \* {root}/blueprints/<id>   -> directory entries
    uploaded,             \* {root}/uploaded-blueprints/<id> -> directory entries
    tempdirs,             \* extraction directories made by mkdtemp
    storage               \* Blueprint records of the storage manager

\* the resource surface: one call of a resource operation
VARIABLES
    api_op,               \* the resource method that was called
    api_raised,           \* the exception its body raised, if any
    api_response          \* what the caller received

api == <<api_op, api_raised, api_response>>

\* node instances and the requests that update them
VARIABLES
    node_instances,       \* storage: node instance id -> stored instance
    patch_pc,             \* position of each NodeInstancesId.patch request
    patch_request,        \* its content type, node_instance_id and json body
    patch_node,           \* the DeploymentNodeInstance it built
    patch_calls,          \* how often it called update_node_instance
    patch_outcome         \* what it raised or returned

patches == <<patch_pc, patch_request, patch_node, patch_calls, patch_outcome>>
instances == <<node_instances, patches>>

\* executions and the requests that start, cancel and update them
VARIABLES
    executions,           \* storage: execution id -> stored execution
    start_pc,             \* position of each DeploymentsIdExecutions.post
    start_request,        \* its workflow_id and its 'force' argument
    start_force,          \* the converted force flag
    start_outcome,        \* what it raised or returned
    exec_op               \* the last ExecutionsId.post / patch and its answer

starts == <<start_pc, start_request, start_force, start_outcome>>
workflows == <<executions, starts, exec_op>>

\* deployments and the clients that create them and delete blueprints
VARIABLES
    deployments,          \* storage: deployment id -> stored deployment
    nodes,                \* storage: node id -> stored node
    client_pc,            \* position of each client's request
    client_request,       \* the deployment and blueprint ids it names
    client_outcome,       \* what it raised or returned
    delete_op             \* the last DeploymentsId.delete and its answer

clients == <<client_pc, client_request, client_outcome>>
lifecycle == <<deployments, nodes, clients, delete_op>>

\* the database schema and the alembic migration 4dfd8797fdfa run on it
VARIABLES
    db_types,             \* names of the enum types of the database
    db_columns,           \* the tables that hold a column of the enum type
    alembic_version,      \* the revision the database is at
    prior_columns,        \* the columns the resource tables held before
    migration_running,    \* "none", "upgrade" or "downgrade"
    migration_stmt,       \* statements of the running function executed
    migration_failed,     \* a statement raised
    migration_history     \* the functions that ran to their end, in order

schema == <<db_types, db_columns, alembic_version, prior_columns,
            migration_running, migration_stmt, migration_failed,
            migration_history>>

inputs == <<transfer_encoded, request_data, request_args>>
locals == <<pc, inputs, archive_target_path, tempdir, application_dir,
            application_file, blueprint_id, dsl_result, outcome>>
files == <<archives, staged, blueprints, uploaded, tempdirs>>
upload == <<locals, files>>
vars == <<upload, storage, api, instances, workflows, lifecycle, schema>>

NoOutcome == [kind |-> "none", message |-> ""]
Raise(kind, message) == [kind |-> kind, message |-> message]
Created == [kind |-> "201", message |-> ""]

NoException == [kind |-> "none", http_code |-> 0, error_code |-> ""]
NoResponse == [http_code |-> 0, error_code |-> ""]

InitApi ==
    /\ api_op = ""
    /\ api_raised = NoException
    /\ api_response = NoResponse

\* json values: an int, a string, a map taken as a whole, or null
JInt(n) == [class |-> "int", int |-> n, str |-> ""]
JStr(t) == [class |-> "str", int |-> 0, str |-> t]
JDict(t) == [class |-> "dict", int |-> 0, str |-> t]
JNone == [class |-> "NoneType", int |-> 0, str |-> ""]

\* request.json of a body that is a map, and of one that is a list
JsonMap(fields) == [class |-> "dict", fields |-> fields]
JsonList == [class |-> "list", fields |-> NoEntries]

NoRequest == [content_type |-> "", id |-> "", json |-> JsonList]
NoNode == [id |-> "", runtime_properties |-> JNone, state |-> JNone,
           version |-> 0]

\* the deployment the node instance and the executions belong to
DEPLOYMENT == "d1"

\* a deployment's node instance as the storage holds it after creation
StoredInstance ==
    [deployment_id |-> DEPLOYMENT, node_id |-> "n1",
     runtime_properties |-> JNone, state |-> JStr("uninitialized"),
     version |-> 1]

InitInstances ==
    /\ node_instances = ("i1" :> StoredInstance)
    /\ patch_pc = [p \in Patches |-> "idle"]
    /\ patch_request = [p \in Patches |-> NoRequest]
    /\ patch_node = [p \in Patches |-> NoNode]
    /\ patch_calls = [p \in Patches |-> 0]
    /\ patch_outcome = [p \in Patches |-> NoOutcome]

NoStart == [workflow_id |-> "", force |-> ""]
NoExecOp == [op |-> "", execution_id |-> "", action |-> "", kind |-> "none",
             engine_asked |-> FALSE, engine_force |-> FALSE]

InitWorkflows ==
    /\ executions = NoEntries
    /\ start_pc = [s \in Starts |-> "idle"]
    /\ start_request = [s \in Starts |-> NoStart]
    /\ start_force = [s \in Starts |-> FALSE]
    /\ start_outcome = [s \in Starts |-> NoOutcome]
    /\ exec_op = NoExecOp

NoClientRequest == [deployment_id |-> "", blueprint_id |-> ""]
NoDeleteOp == [deployment_id |-> "", ignore_live_nodes |-> "", kind |-> "none"]

InitClients ==
    /\ client_pc = [c \in Clients |-> "idle"]
    /\ client_request = [c \in Clients |-> NoClientRequest]
    /\ client_outcome = [c \in Clients |-> NoOutcome]
    /\ delete_op = NoDeleteOp

InitLifecycle ==
    /\ deployments = NoEntries
    /\ nodes = NoEntries
    /\ InitClients

(* ------------------------ migration 4dfd8797fdfa ----------------------- *)

\* the number of migration functions run on one database
NumMigrations == 2

\* revision identifiers, used by Alembic
revision == "4dfd8797fdfa"
down_revision == "3496c876cd1a"

\* the name of the enum type and of the column of that type
resource_availability == "resource_availability"

\* the statements a migration function executes
CreateEnum == [op |-> "create_type", table |-> ""]
DropEnum == [op |-> "drop_type", table |-> ""]
AddColumn(table) == [op |-> "add_column", table |-> table]
DropColumn(table) == [op |-> "drop_column", table |-> table]

upgradeWithoutSecrets ==
    <<CreateEnum,
      AddColumn("blueprints"),
      AddColumn("deployment_modifications"),
      AddColumn("deployment_update_steps"),
      AddColumn("deployment_updates"),
      AddColumn("deployments"),
      AddColumn("events"),
      AddColumn("executions"),
      AddColumn("logs"),
      AddColumn("node_instances"),
      AddColumn("nodes"),
      AddColumn("plugins"),
      AddColumn("snapshots")>>

\* upgrade(): the enum is created, then the column is added to 13 tables
upgrade ==
    <<CreateEnum,
      AddColumn("blueprints"),
      AddColumn("deployment_modifications"),
      AddColumn("deployment_update_steps"),
      AddColumn("deployment_updates"),
      AddColumn("deployments"),
      AddColumn("events"),
      AddColumn("executions"),
      AddColumn("logs"),
      AddColumn("node_instances"),
      AddColumn("nodes"),
      AddColumn("plugins"),
      AddColumn("secrets"),
      AddColumn("snapshots")>>

\* downgrade(): the column is dropped from 13 tables, then the enum
downgrade ==
    <<DropColumn("snapshots"),
      DropColumn("secrets"),
      DropColumn("plugins"),
      DropColumn("nodes"),
      DropColumn("node_instances"),
      DropColumn("logs"),
      DropColumn("executions"),
      DropColumn("events"),
      DropColumn("deployments"),
      DropColumn("deployment_updates"),
      DropColumn("deployment_update_steps"),
      DropColumn("deployment_modifications"),
      DropColumn("blueprints"),
      DropEnum>>

\* the tables of resources at revision 3496c876cd1a, and tables that hold
\* no resources
ResourceTables ==
    {"blueprints", "deployment_modifications", "deployment_update_steps",
     "deployment_updates", "deployments", "events", "executions", "logs",
     "node_instances", "nodes", "plugins", "secrets", "snapshots"}
OtherTables == {"users", "tenants"}

\* columns a resource table may hold besides its id before the migration
ResourceColumns == {"_tenant_id", "_creator_id", "private_resource"}

\* the schema of a database: its enum types and, table by table, the type
\* of every column; extra are the columns the resource tables held before
\* the migration, enum_tables the tables holding the enum column
SchemaOf(types, extra, enum_tables) ==
    [types |-> types,
     columns |->
        [t \in ResourceTables \cup OtherTables |->
            (IF t \in enum_tables
             THEN resource_availability :> resource_availability
             ELSE NoEntries)
            @@ (IF t \in ResourceTables
                THEN [c \in extra |-> "text"]
                ELSE NoEntries)
            @@ ("id" :> "text")]]

\* the schemas the migration may find: no enum type, every table with its
\* id, the resource tables with some of the resource columns
PriorSchemas == {SchemaOf({}, extra, {}) : extra \in SUBSET ResourceColumns}

InitSchemaOf(extra) ==
    /\ db_types = {}
    /\ db_columns = {}
    /\ prior_columns = extra
    /\ alembic_version = down_revision
    /\ migration_running = "none"
    /\ migration_stmt = 0
    /\ migration_failed = FALSE
    /\ migration_history = <<>>

\* the schema of a database at revision 3496c876cd1a
InitSchema == InitSchemaOf(ResourceColumns)

InitUpload ==
    /\ pc = [r \in Requests |-> "idle"]
    /\ transfer_encoded = [r \in Requests |-> FALSE]
    /\ request_data = [r \in Requests |-> EmptyBody]
    /\ request_args = [r \in Requests |-> NoEntries]
    /\ archive_target_path = [r \in Requests |-> ""]
    /\ tempdir = [r \in Requests |-> ""]
    /\ application_dir = [r \in Requests |-> ""]
    /\ application_file = [r \in Requests |-> ""]
    /\ blueprint_id = [r \in Requests |-> ""]
    /\ dsl_result = [r \in Requests |-> "none"]
    /\ outcome = [r \in Requests |-> NoOutcome]
    /\ archives = NoEntries
    /\ staged = NoEntries
    /\ blueprints = NoEntries
    /\ uploaded = NoEntries
    /\ tempdirs = NoEntries
    /\ storage = NoEntries

Init ==
    /\ InitApi
    /\ InitInstances
    /\ InitWorkflows
    /\ InitLifecycle
    /\ InitUpload
    /\ InitSchema

(* --------------------------- unique names ------------------------------ *)

\* tempfile.mktemp(dir=file_server_root): a random name unused in the root
Mktemp(r) == "tmp" \o ToString(r)

\* tempfile.mkdtemp('-blueprint-submit')
Mkdtemp(r) == "tmp" \o ToString(r) \o "-blueprint-submit"

\* uuid.uuid4()
Uuid4(r) == ToString(r)

GeneratedAppDirNameWithoutSuffix(base, uuid) == base

\* '{0}-{1}'.format(application_dir_base_name, uuid.uuid4())
GeneratedAppDirName(base, uuid) == base \o "-" \o uuid

(* ------------------------------ do_request ----------------------------- *)

\* a raise inside the try block of do_request: control goes to the finally
Fail(r, kind, message) ==
    /\ outcome' = [outcome EXCEPT ![r] = Raise(kind, message)]
    /\ pc' = [pc EXCEPT ![r] = "finally"]

Goto(r, label) == pc' = [pc EXCEPT ![r] = label]

\* a request arrives with its headers and body; do_request picks the
\* scratch archive path
DoRequest(r) ==
    /\ pc[r] = "idle"
    /\ \E chunked \in BOOLEAN, data \in Bodies :
          /\ transfer_encoded' = [transfer_encoded EXCEPT ![r] = chunked]
          /\ request_data' = [request_data EXCEPT ![r] = data]
    /\ archive_target_path' = [archive_target_path EXCEPT ![r] = Mktemp(r)]
    /\ Goto(r, "save")
    /\ UNCHANGED <<request_args, tempdir, application_dir, application_file,
                   blueprint_id, dsl_result, outcome, files, storage>>

MissingArchiveUnchecked(r) == FALSE

\* 'Transfer-Encoding' not in request.headers and not request.data
MissingArchive(r) == ~transfer_encoded[r] /\ request_data[r] = EmptyBody

\* _save_file_locally; the headers and the body are read here and by no
\* later statement, so the state keeps them no longer
SaveFileLocally(r) ==
    /\ pc[r] = "save"
    /\ IF MissingArchive(r)
       THEN /\ Fail(r, "BadParameters",
                    "Missing application archive in request body")
            /\ UNCHANGED archives
       ELSE /\ archives' = Put(archives, archive_target_path[r],
                               request_data[r])
            /\ Goto(r, "extract")
            /\ UNCHANGED outcome
    /\ transfer_encoded' = [transfer_encoded EXCEPT ![r] = FALSE]
    /\ request_data' = [request_data EXCEPT ![r] = EmptyBody]
    /\ UNCHANGED <<request_args, archive_target_path, tempdir,
                   application_dir, application_file, blueprint_id,
                   dsl_result, staged, blueprints, uploaded, tempdirs,
                   storage>>

(* ---------------------- _extract_file_to_file_server ------------------- *)

\* tarfile.open, tempfile.mkdtemp and tar.extractall
ExtractOpen(r) ==
    /\ pc[r] = "extract"
    /\ IF archive_target_path[r] \notin DOMAIN archives
       THEN /\ Fail(r, "IOError", "No such file or directory")
            /\ UNCHANGED <<tempdir, tempdirs>>
       ELSE IF archives[archive_target_path[r]].fmt # "tar"
       THEN /\ Fail(r, "ReadError", "file could not be opened successfully")
            /\ UNCHANGED <<tempdir, tempdirs>>
       ELSE /\ tempdir' = [tempdir EXCEPT ![r] = Mkdtemp(r)]
            /\ tempdirs' = Put(tempdirs, Mkdtemp(r),
                               archives[archive_target_path[r]].top)
            /\ Goto(r, "listdir")
            /\ UNCHANGED outcome
    /\ UNCHANGED <<inputs, archive_target_path, application_dir, application_file,
                   blueprint_id, dsl_result, archives, staged, blueprints,
                   uploaded, storage>>

\* len(archive_file_list) != 1 or not path.isdir(archive_file_list[0])
NotExactlyOneDirectory(archive_file_list) ==
    \/ Cardinality(DOMAIN archive_file_list) # 1
    \/ \E name \in DOMAIN archive_file_list :
          ~IsDirIn(archive_file_list, name)

RmtreeTempdirSkipped(r) == tempdirs

\* the finally of _extract_file_to_file_server: shutil.rmtree(tempdir)
RmtreeTempdir(r) == Drop(tempdirs, tempdir[r])

\* os.listdir, the single-directory check, the two moves and the finally
ExtractCheckAndMove(r) ==
    /\ pc[r] = "listdir"
    /\ LET archive_file_list == tempdirs[tempdir[r]]
       IN  IF NotExactlyOneDirectory(archive_file_list)
           THEN /\ Fail(r, "BadParameters",
                        "archive must contain exactly 1 directory")
                /\ UNCHANGED <<application_dir, staged>>
           ELSE LET application_dir_base_name ==
                        CHOOSE name \in DOMAIN archive_file_list : TRUE
                    generated_app_dir_name ==
                        GeneratedAppDirName(application_dir_base_name,
                                            Uuid4(r))
                IN  IF generated_app_dir_name \in
                           DOMAIN staged \cup DOMAIN archives
                    THEN \* shutil.move refuses an existing destination
                         /\ Fail(r, "Error",
                                 "Destination path already exists")
                         /\ UNCHANGED <<application_dir, staged>>
                    ELSE /\ staged' =
                              Put(staged, generated_app_dir_name,
                                  archive_file_list[
                                      application_dir_base_name].entries)
                         /\ application_dir' =
                              [application_dir EXCEPT
                                  ![r] = generated_app_dir_name]
                         /\ Goto(r, "resolve")
                         /\ UNCHANGED outcome
    /\ tempdirs' = RmtreeTempdir(r)
    /\ UNCHANGED <<inputs, archive_target_path, tempdir, application_file,
                   blueprint_id, dsl_result, archives, blueprints, uploaded,
                   storage>>

(* ------------------------ _extract_application_file -------------------- *)

HexChar(code) ==
    IF code = "20" THEN " " ELSE IF code = "2E" THEN "." ELSE ""

\* urllib.unquote
RECURSIVE Unquote(_)
Unquote(s) ==
    IF Len(s) = 0 THEN ""
    ELSE IF /\ SubSeq(s, 1, 1) = "%"
            /\ Len(s) >= 3
            /\ HexChar(SubSeq(s, 2, 3)) # ""
         THEN HexChar(SubSeq(s, 2, 3)) \o Unquote(SubSeq(s, 4, Len(s)))
         ELSE SubSeq(s, 1, 1) \o Unquote(SubSeq(s, 2, Len(s)))

HasConventionEntry(dir) ==
    /\ dir \in DOMAIN staged
    /\ CONVENTION_APPLICATION_BLUEPRINT_FILE \in DOMAIN staged[dir]

\* path.isfile(path.join(file_server_root, application_dir, 'blueprint.yaml'))
HasConventionFile(dir) ==
    /\ dir \in DOMAIN staged
    /\ IsFileIn(staged[dir], CONVENTION_APPLICATION_BLUEPRINT_FILE)

ExtractApplicationFile(r) ==
    /\ pc[r] = "resolve"
    /\ \E args \in RequestArgs :
          /\ request_args' = [request_args EXCEPT ![r] = args]
          /\ IF "application_file_name" \in DOMAIN args
             THEN /\ application_file' =
                       [application_file EXCEPT ![r] =
                           Join(application_dir[r],
                                Unquote(args["application_file_name"]))]
                  /\ Goto(r, "publish")
                  /\ UNCHANGED outcome
             ELSE IF HasConventionFile(application_dir[r])
             THEN /\ application_file' =
                       [application_file EXCEPT ![r] =
                           Join(application_dir[r],
                                CONVENTION_APPLICATION_BLUEPRINT_FILE)]
                  /\ Goto(r, "publish")
                  /\ UNCHANGED outcome
             ELSE /\ Fail(r, "BadParameters",
                          "Missing application_file_name query parameter or application directory is missing blueprint.yaml")
                  /\ UNCHANGED application_file
    /\ UNCHANGED <<transfer_encoded, request_data, archive_target_path,
                   tempdir, application_dir, blueprint_id, dsl_result, files,
                   storage>>

(* ---------------------- blueprints manager (collaborator) -------------- *)

\* what the document parser may answer: a plan, or a parse error detail
ParserAnswers(document_exists) ==
    (IF document_exists THEN {"plan"} ELSE {}) \cup ParseErrors

\* BlueprintsManager.publish_blueprint after a successful parse: the record
\* is inserted under the id unless a record with that id exists
PublishConflicts(id) == id \in DOMAIN storage

PublishedRecord(id, dsl_path) == [id |-> id, plan |-> dsl_path]

(* --------------------- _prepare_and_submit_blueprint ------------------- *)

\* the entry document named by application_file, relative to the staged dir
DocumentName(r) ==
    SubSeq(application_file[r], Len(application_dir[r]) + 2,
           Len(application_file[r]))

DocumentExists(r) ==
    /\ application_dir[r] \in DOMAIN staged
    /\ IsFileIn(staged[application_dir[r]], DocumentName(r))

\* str(ex.args) of an exception raised with one argument
FormatArgs(detail) == "('" \o detail \o "',)"

InvalidBlueprintMessageWithoutDetail(detail) == "Invalid blueprint"

\* 'Invalid blueprint - {0}'.format(ex.args)
InvalidBlueprintMessage(detail) ==
    "Invalid blueprint - " \o FormatArgs(detail)

ConflictSwallowed(r) ==
    /\ Goto(r, "move_blueprint")
    /\ UNCHANGED outcome

\* the ConflictError of publish_blueprint is not caught by the
\* except DslParseException clause and leaves the try block
ConflictPropagates(r) == Fail(r, "Conflict", "blueprint already exists")

\* publish_blueprint inside the try block, and the except DslParseException
PublishBlueprint(r) ==
    /\ pc[r] = "publish"
    /\ \E requested \in BlueprintIds \cup {""}, generated \in BlueprintIds,
          answer \in ParserAnswers(DocumentExists(r)) :
          LET id == IF requested = "" THEN generated ELSE requested
          IN  /\ dsl_result' = [dsl_result EXCEPT ![r] = answer]
              /\ IF answer # "plan"
                 THEN /\ staged' = Drop(staged, application_dir[r])
                      /\ Fail(r, "InvalidBlueprint",
                              InvalidBlueprintMessage(answer))
                      /\ UNCHANGED <<blueprint_id, storage>>
                 ELSE /\ blueprint_id' = [blueprint_id EXCEPT ![r] = id]
                      /\ UNCHANGED staged
                      /\ IF PublishConflicts(id)
                         THEN /\ ConflictPropagates(r)
                              /\ UNCHANGED storage
                         ELSE /\ storage' =
                                   Put(storage, id,
                                       PublishedRecord(id,
                                                       application_file[r]))
                              /\ Goto(r, "move_blueprint")
                              /\ UNCHANGED outcome
    /\ UNCHANGED <<inputs, archive_target_path, tempdir, application_dir,
                   application_file, archives, blueprints, uploaded,
                   tempdirs>>

ShutilMoveDirAlwaysInto(area, dst, src_name, src_entries) ==
    Put(area, dst, src_name :> Dir(src_entries))

\* shutil.move(src_dir, dst): into dst when dst is an existing directory
ShutilMoveDir(area, dst, src_name, src_entries) ==
    IF dst \in DOMAIN area
    THEN [area EXCEPT ![dst] = Put(@, src_name, Dir(src_entries))]
    ELSE Put(area, dst, src_entries)

MoveToBlueprintsFolder(r) ==
    /\ pc[r] = "move_blueprint"
    /\ blueprints' = ShutilMoveDir(blueprints, blueprint_id[r],
                                   application_dir[r],
                                   staged[application_dir[r]])
    /\ staged' = Drop(staged, application_dir[r])
    /\ Goto(r, "process_plugins")
    /\ UNCHANGED <<inputs, archive_target_path, tempdir, application_dir,
                   application_file, blueprint_id, dsl_result, outcome,
                   archives, uploaded, tempdirs, storage>>

(* ------------------------ _process_plugins, _zip_dir ------------------- *)

\* path.basename
RECURSIVE Basename(_)
Basename(p) ==
    IF Len(p) = 0 \/ SubSeq(p, Len(p), Len(p)) = "/" THEN ""
    ELSE Basename(SubSeq(p, 1, Len(p) - 1)) \o SubSeq(p, Len(p), Len(p))

\* os.walk: the files below a directory, with their joined paths
RECURSIVE WalkFiles(_, _)
WalkFiles(base, entries) ==
    UNION { IF entries[name].kind = "dir"
            THEN WalkFiles(Join(base, name), entries[name].entries)
            ELSE {[fn |-> Join(base, name), node |-> entries[name]]}
          : name \in DOMAIN entries }

ZipDirAbsolutePaths(dir_to_zip, entries) ==
    Zip({ [arcname |-> w.fn, node |-> w.node] :
              w \in WalkFiles(dir_to_zip, entries) })

\* the members written by _zip_dir: zipf.write(fn, fn[rootlen:])
ZipDir(dir_to_zip, entries) ==
    LET plugin_dir_base_name == Basename(dir_to_zip)
        rootlen == Len(dir_to_zip) - Len(plugin_dir_base_name)
    IN  Zip({ [arcname |-> SubSeq(w.fn, rootlen + 1, Len(w.fn)),
               node |-> w.node] : w \in WalkFiles(dir_to_zip, entries) })

ZipName(plugin) == plugin \o ".zip"

\* the entries of blueprints/{id} after _process_plugins
ProcessedPlugins(id, blueprint_entries) ==
    LET plugins_directory ==
            Join(Join(Join(FILE_SERVER_ROOT, BLUEPRINTS_FOLDER), id),
                 "plugins")
    IN  IF ~IsDirIn(blueprint_entries, "plugins")
        THEN blueprint_entries
        ELSE LET listing == blueprint_entries["plugins"].entries
                 plugins == {d \in DOMAIN listing : IsDirIn(listing, d)}
                 zipped ==
                    [x \in DOMAIN listing \cup {ZipName(d) : d \in plugins}
                       |-> IF \E d \in plugins : x = ZipName(d)
                           THEN LET d == CHOOSE d \in plugins :
                                             x = ZipName(d)
                                IN  ZipDir(Join(plugins_directory, d),
                                           listing[d].entries)
                           ELSE listing[x]]
             IN  [blueprint_entries EXCEPT !["plugins"] = Dir(zipped)]

ProcessPlugins(r) ==
    /\ pc[r] = "process_plugins"
    /\ blueprints' =
          IF blueprint_id[r] \in DOMAIN blueprints
          THEN [blueprints EXCEPT ![blueprint_id[r]] =
                   ProcessedPlugins(blueprint_id[r], @)]
          ELSE blueprints
    /\ Goto(r, "move_archive")
    /\ UNCHANGED <<inputs, archive_target_path, tempdir, application_dir,
                   application_file, blueprint_id, dsl_result, outcome,
                   archives, staged, uploaded, tempdirs, storage>>

(* ---------------- _move_archive_to_uploaded_blueprints_dir ------------- *)

\* '{0}.tar.gz'.format(blueprint_id)
ArchiveFileName(id) == id \o ".tar.gz"

MissingArchiveErrorTyped == "NotFound"

\* raise RuntimeError("Archive [{0}] doesn't exist ...")
MissingArchiveError == "RuntimeError"

MoveArchiveToUploadedBlueprintsDir(r) ==
    /\ pc[r] = "move_archive"
    /\ IF archive_target_path[r] \notin DOMAIN archives
       THEN /\ Fail(r, MissingArchiveError,
                    "Archive doesn't exist - Cannot move archive to uploaded blueprints directory")
            /\ UNCHANGED <<archives, uploaded>>
       ELSE IF blueprint_id[r] \in DOMAIN uploaded
       THEN \* os.makedirs of an existing directory
            /\ Fail(r, "OSError", "File exists")
            /\ UNCHANGED <<archives, uploaded>>
       ELSE /\ uploaded' =
                 Put(uploaded, blueprint_id[r],
                     ArchiveFileName(blueprint_id[r]) :>
                         File(archives[archive_target_path[r]]))
            /\ archives' = Drop(archives, archive_target_path[r])
            /\ outcome' = [outcome EXCEPT ![r] = Created]
            /\ Goto(r, "finally")
    /\ UNCHANGED <<inputs, archive_target_path, tempdir, application_dir,
                   application_file, blueprint_id, dsl_result, staged,
                   blueprints, tempdirs, storage>>

ScratchArchiveKept(r) == archives

\* if os.path.exists(archive_target_path): os.remove(archive_target_path)
RemoveScratchArchive(r) == Drop(archives, archive_target_path[r])

\* the finally block of do_request, then the return or the re-raise
Finally(r) ==
    /\ pc[r] = "finally"
    /\ archives' = RemoveScratchArchive(r)
    /\ Goto(r, "done")
    /\ UNCHANGED <<inputs, archive_target_path, tempdir, application_dir,
                   application_file, blueprint_id, dsl_result, outcome,
                   staged, blueprints, uploaded, tempdirs, storage>>

(* ------------------------------ environment ---------------------------- *)

\* the scratch archive of a request disappears from the shared root before
\* the final move, the situation _move_archive_to_uploaded_blueprints_dir
\* tests for
ArchiveVanishes(r) ==
    /\ pc[r] = "move_archive"
    /\ archive_target_path[r] \in DOMAIN archives
    /\ archives' = Drop(archives, archive_target_path[r])
    /\ UNCHANGED <<locals, staged, blueprints, uploaded, tempdirs, storage>>

Next ==
    /\ UNCHANGED <<api, schema, instances, workflows, lifecycle>>
    /\ \E r \in Requests :
          \/ DoRequest(r)
          \/ SaveFileLocally(r)
          \/ ExtractOpen(r)
          \/ ExtractCheckAndMove(r)
          \/ ExtractApplicationFile(r)
          \/ PublishBlueprint(r)
          \/ MoveToBlueprintsFolder(r)
          \/ ProcessPlugins(r)
          \/ MoveArchiveToUploadedBlueprintsDir(r)
          \/ Finally(r)
          \/ ArchiveVanishes(r)

Spec == Init /\ [][Next]_vars

(* --------------------------- resource surface -------------------------- *)

\* the methods of the resources registered by setup_resources
Operations ==
    {"BlueprintsIdArchive.get", "Blueprints.get", "Blueprints.post",
     "BlueprintsId.get", "BlueprintsId.put", "BlueprintsId.delete",
     "ExecutionsId.get", "ExecutionsId.post", "ExecutionsId.patch",
     "Deployments.get", "DeploymentsId.get", "DeploymentsId.put",
     "DeploymentsId.delete", "Nodes.get", "NodeInstances.get",
     "NodeInstancesId.get", "NodeInstancesId.patch",
     "DeploymentsIdExecutions.get", "DeploymentsIdExecutions.post",
     "DeploymentsIdWorkflows.get", "Events.get", "Events.post",
     "Search.post", "Status.get", "ProviderContext.get",
     "ProviderContext.post"}

\* the methods that lack the @exceptions_handled decorator
Undecorated == {"Blueprints.get", "Deployments.get"}

\* http codes and error codes a manager exception may carry
HttpCodes == {400, 404, 409}
ErrorCodes == {"E1", "E2"}

\* abort(500, ...): what the framework answers to an uncaught exception
INTERNAL_SERVER_ERROR == 500
INTERNAL_SERVER_ERROR_CODE == "internal_server_error"

\* what the body of a resource method may raise
Exceptions ==
    {[kind |-> k, http_code |-> h, error_code |-> c] :
        k \in TypedKinds, h \in HttpCodes, c \in ErrorCodes}
    \cup {[kind |-> "RuntimeError", http_code |-> 0, error_code |-> ""]}

\* abort_error
AbortError(error) ==
    [http_code |-> error.http_code, error_code |-> error.error_code]

Uncaught ==
    [http_code |-> INTERNAL_SERVER_ERROR,
     error_code |-> INTERNAL_SERVER_ERROR_CODE]

Returned == [http_code |-> 200, error_code |-> ""]

\* the wrapper of exceptions_handled around a method body
ExceptionsHandled(raised) ==
    IF raised.kind = "none" THEN Returned
    ELSE IF raised.kind \in TypedKinds THEN AbortError(raised)
    ELSE Uncaught

\* a method body without the wrapper
Unhandled(raised) ==
    IF raised.kind = "none" THEN Returned ELSE Uncaught

\* one call of a resource method whose body returns or raises
Dispatch(op, raised) ==
    /\ api_op' = op
    /\ api_raised' = raised
    /\ api_response' =
          IF op \in Undecorated
          THEN Unhandled(raised)
          ELSE ExceptionsHandled(raised)
    /\ UNCHANGED <<upload, storage, instances, workflows, lifecycle,
                   schema>>

NextApi ==
    \E op \in Operations, raised \in Exceptions \cup {NoException} :
        Dispatch(op, raised)

SpecApi == Init /\ [][NextApi]_vars

(* ---------------------------- NodeInstancesId --------------------------- *)

\* the bodies of node instance update requests
PatchBodies(p) ==
    {JsonList,
     JsonMap("state" :> JStr("started")),
     JsonMap("version" :> JStr("1"))}
    \cup {JsonMap(("version" :> JInt(v)) @@ ("state" :> JStr("started"))) :
              v \in Versions}
    \cup {JsonMap(("version" :> JInt(v)) @@
                  ("runtime_properties" :> JDict(ToString(p)))) :
              v \in Versions}

ContentTypes == {"application/json", "text/plain"}

NodeInstanceIds == {"i1", "i9"}

PatchFails(p, kind, message) ==
    /\ patch_outcome' = [patch_outcome EXCEPT ![p] = Raise(kind, message)]
    /\ patch_pc' = [patch_pc EXCEPT ![p] = "done"]

\* verify_json_content_type
JsonContentType(content_type) == content_type = "application/json"

\* request.json.get(key): None when the key is absent
JsonGet(json, key) ==
    IF key \in DOMAIN json.fields THEN json.fields[key] ELSE JNone

PatchBodyErrorWithoutVersionType(json) ==
    IF json.class # "dict"
    THEN "Request body is expected to be a map containing a \"version\" field and optionally \"runtimeProperties\" and/or \"state\" fields"
    ELSE IF "version" \notin DOMAIN json.fields
    THEN "Request body must be a map containing a \"version\" field"
    ELSE ""

\* the message of the BadParametersError of patch, "" for a valid body
PatchBodyError(json) ==
    IF json.class # "dict"
    THEN "Request body is expected to be a map containing a \"version\" field and optionally \"runtimeProperties\" and/or \"state\" fields"
    ELSE IF "version" \notin DOMAIN json.fields
    THEN "Request body must be a map containing a \"version\" field"
    ELSE IF json.fields["version"].class # "int"
    THEN "request body's 'version' field must be an int but is of type "
             \o json.fields["version"].class
    ELSE ""

NodeFromRequestWithStoredVersion(node_instance_id, json) ==
    [id |-> node_instance_id,
     runtime_properties |-> JsonGet(json, "runtime_properties"),
     state |-> JsonGet(json, "state"),
     version |-> IF node_instance_id \in DOMAIN node_instances
                 THEN node_instances[node_instance_id].version
                 ELSE json.fields["version"].int]

\* models.DeploymentNodeInstance(id=..., version=request.json['version'])
NodeFromRequest(node_instance_id, json) ==
    [id |-> node_instance_id,
     runtime_properties |-> JsonGet(json, "runtime_properties"),
     state |-> JsonGet(json, "state"),
     version |-> json.fields["version"].int]

\* a request arrives; the content type and the body are verified and the
\* node to store is built
PatchBegin(p) ==
    /\ patch_pc[p] = "idle"
    /\ \E content_type \in ContentTypes, id \in NodeInstanceIds,
          json \in PatchBodies(p) :
          /\ patch_request' = [patch_request EXCEPT ![p] =
                [content_type |-> content_type, id |-> id, json |-> json]]
          /\ IF ~JsonContentType(content_type)
             THEN /\ PatchFails(p, "UnsupportedContentType",
                                "Content type must be application/json")
                  /\ UNCHANGED patch_node
             ELSE IF PatchBodyError(json) # ""
             THEN /\ PatchFails(p, "BadParameters", PatchBodyError(json))
                  /\ UNCHANGED patch_node
             ELSE /\ patch_node' = [patch_node EXCEPT ![p] =
                                       NodeFromRequest(id, json)]
                  /\ patch_pc' = [patch_pc EXCEPT ![p] = "update"]
                  /\ UNCHANGED patch_outcome
    /\ UNCHANGED <<node_instances, patch_calls, upload, storage, api, schema,
                   workflows, lifecycle>>

\* the instance the storage holds after an accepted update_node_instance
UpdatedInstance(stored, node) ==
    [stored EXCEPT
        !.runtime_properties =
            IF node.runtime_properties = JNone THEN @
            ELSE node.runtime_properties,
        !.state = IF node.state = JNone THEN @ ELSE node.state,
        !.version = @ + 1]

\* the storage refuses an update whose version is not the stored one
VersionIsStale(stored, node) == node.version # stored.version

PatchConflictRetried(p) ==
    /\ patch_node' = [patch_node EXCEPT ![p].version =
                         node_instances[patch_node[p].id].version]
    /\ UNCHANGED <<patch_pc, patch_outcome>>

\* the ConflictError of update_node_instance leaves patch: the update is
\* not tried again
PatchConflictSurfaces(p) ==
    /\ PatchFails(p, "Conflict", "version conflict")
    /\ UNCHANGED patch_node

\* get_storage_manager().update_node_instance(node)
PatchUpdate(p) ==
    /\ patch_pc[p] = "update"
    /\ patch_calls' = [patch_calls EXCEPT ![p] = @ + 1]
    /\ LET node == patch_node[p]
       IN  IF node.id \notin DOMAIN node_instances
           THEN /\ PatchFails(p, "NotFound", "node instance not found")
                /\ UNCHANGED <<node_instances, patch_node>>
           ELSE IF VersionIsStale(node_instances[node.id], node)
           THEN /\ PatchConflictSurfaces(p)
                /\ UNCHANGED node_instances
           ELSE /\ node_instances' =
                     [node_instances EXCEPT ![node.id] =
                         UpdatedInstance(@, node)]
                /\ patch_pc' = [patch_pc EXCEPT ![p] = "get"]
                /\ UNCHANGED <<patch_outcome, patch_node>>
    /\ UNCHANGED <<patch_request, upload, storage, api, schema, workflows,
                   lifecycle>>

\* return responses.NodeInstance(**get_node_instance(id).to_dict())
PatchReturn(p) ==
    /\ patch_pc[p] = "get"
    /\ patch_outcome' = [patch_outcome EXCEPT ![p] =
          [kind |-> "200",
           message |-> ToString(node_instances[patch_node[p].id].version)]]
    /\ patch_pc' = [patch_pc EXCEPT ![p] = "done"]
    /\ UNCHANGED <<node_instances, patch_request, patch_node, patch_calls,
                   upload, storage, api, schema, workflows, lifecycle>>

NextInstances ==
    \E p \in Patches :
        \/ PatchBegin(p)
        \/ PatchUpdate(p)
        \/ PatchReturn(p)

SpecInstances == Init /\ [][NextInstances]_vars

(* ------------------------- request verification ------------------------ *)

UPPERCASE == "ABCDEFGHIJKLMNOPQRSTUVWXYZ"
LOWERCASE == "abcdefghijklmnopqrstuvwxyz"

\* each uppercase letter with its lowercase letter
LowerOf ==
    [c \in {SubSeq(UPPERCASE, i, i) : i \in 1..Len(UPPERCASE)} |->
        LET i == CHOOSE i \in 1..Len(UPPERCASE) : SubSeq(UPPERCASE, i, i) = c
        IN  SubSeq(LOWERCASE, i, i)]

LowerChar(c) == IF c \in DOMAIN LowerOf THEN LowerOf[c] ELSE c

\* str.lower
RECURSIVE Lower(_)
Lower(t) ==
    IF Len(t) = 0 THEN ""
    ELSE LowerChar(SubSeq(t, 1, 1)) \o Lower(SubSeq(t, 2, Len(t)))

NotBoolCaseSensitive(str_bool) == str_bool \notin {"true", "false"}

\* verify_and_convert_bool raises BadParametersError
NotBool(str_bool) == Lower(str_bool) \notin {"true", "false"}

\* verify_and_convert_bool returns
ConvertBool(str_bool) == Lower(str_bool) = "true"

\* verify_parameter_in_request_body
ParameterInRequestBody(param, request_json) ==
    param \in DOMAIN request_json.fields

(* ----------------------- DeploymentsIdExecutions.post ------------------- *)

Statuses ==
    {"pending", "running", "cancelling", "cancelled", "failed", "terminated"}
TerminalStatuses == {"cancelled", "failed", "terminated"}

\* the workflows of the deployment's plan
DeploymentWorkflows == {"install"}

\* the non-terminal executions of a deployment
ActiveExecutions(deployment_id) ==
    {e \in DOMAIN executions :
        /\ executions[e].deployment_id = deployment_id
        /\ executions[e].status \notin TerminalStatuses}

\* the id of the execution a start request creates
ExecutionIdOf(s) == "e" \o ToString(s)

StartBodies ==
    {JsonMap(NoEntries),
     JsonMap("workflow_id" :> JStr("install")),
     JsonMap("workflow_id" :> JStr("nosuch")),
     JsonMap(("workflow_id" :> JStr("install")) @@
             ("parameters" :> JStr("x"))),
     JsonMap(("workflow_id" :> JStr("install")) @@
             ("parameters" :> JDict("p")))}

\* the 'force' query argument; 'false' is its default
ForceArgs == {"false", "True", "yes"}

StartFails(s, kind, message) ==
    /\ start_outcome' = [start_outcome EXCEPT ![s] = Raise(kind, message)]
    /\ start_pc' = [start_pc EXCEPT ![s] = "done"]
    /\ start_request' = [start_request EXCEPT ![s] = NoStart]
    /\ start_force' = [start_force EXCEPT ![s] = FALSE]

\* kwargs is not None and kwargs.__class__ is not dict
BadKwargs(json) ==
    JsonGet(json, "parameters").class \notin {"NoneType", "dict"}

ForceDropped(force) == FALSE

\* the force keyword handed to execute_workflow
ForcePassed(force) == force

\* a request arrives and is verified up to the call of execute_workflow
StartBegin(s) ==
    /\ start_pc[s] = "idle"
    /\ \E content_type \in ContentTypes, json \in StartBodies,
          force \in ForceArgs :
          IF ~JsonContentType(content_type)
          THEN /\ StartFails(s, "UnsupportedContentType",
                             "Content type must be application/json")
          ELSE IF ~ParameterInRequestBody("workflow_id", json)
          THEN /\ StartFails(s, "BadParameters",
                             "Missing workflow_id in json request body")
          ELSE IF NotBool(force)
          THEN /\ StartFails(s, "BadParameters",
                    "force must be <true/false>, got " \o force)
          ELSE IF BadKwargs(json)
          THEN /\ StartFails(s, "BadParameters",
                    "request body's 'parameters' field must be a dict but is of type "
                        \o JsonGet(json, "parameters").class)
          ELSE /\ start_request' = [start_request EXCEPT ![s] =
                     [workflow_id |-> json.fields["workflow_id"].str,
                      force |-> force]]
               /\ start_force' = [start_force EXCEPT ![s] =
                                     ForcePassed(ConvertBool(force))]
               /\ start_pc' = [start_pc EXCEPT ![s] = "check"]
               /\ UNCHANGED start_outcome
    /\ UNCHANGED <<executions, exec_op, upload, storage, api, schema, instances,
                   lifecycle>>

\* execute_workflow: the workflow is looked up and the deployment's
\* executions are searched for one that has not ended
StartCheck(s) ==
    /\ start_pc[s] = "check"
    /\ IF start_request[s].workflow_id \notin DeploymentWorkflows
       THEN StartFails(s, "BadParameters", "unknown workflow")
       ELSE IF ActiveExecutions(DEPLOYMENT) # {} /\ ~start_force[s]
       THEN StartFails(s, "ExistingRunningExecution",
                       "an execution is running")
       ELSE /\ start_pc' = [start_pc EXCEPT ![s] = "create"]
            /\ UNCHANGED <<start_request, start_force, start_outcome>>
    /\ UNCHANGED <<executions, exec_op, upload, storage, api, schema, instances,
                   lifecycle>>

\* the Execution record a start creates
NewExecution(deployment_id, workflow_id) ==
    [deployment_id |-> deployment_id, workflow_id |-> workflow_id,
     status |-> "pending", error |-> ""]

\* execute_workflow: the new execution is stored and dispatched, and
\* post answers 201
StartCreate(s) ==
    /\ start_pc[s] = "create"
    /\ executions' = Put(executions, ExecutionIdOf(s),
                         NewExecution(DEPLOYMENT,
                                      start_request[s].workflow_id))
    /\ start_outcome' = [start_outcome EXCEPT ![s] = Created]
    /\ start_pc' = [start_pc EXCEPT ![s] = "done"]
    /\ start_request' = [start_request EXCEPT ![s] = NoStart]
    /\ UNCHANGED <<start_force, exec_op, upload, storage, api, schema,
                   instances, lifecycle>>

(* ------------------------------ ExecutionsId --------------------------- *)

\* the execution ids a caller may name, of executions created or not yet
ExecutionIds == {ExecutionIdOf(s) : s \in Starts}

Actions == {"cancel", "force-cancel", "pause"}
valid_actions == {"cancel", "force-cancel"}

ExecRequest(execution_id, content_type, json) ==
    [execution_id |-> execution_id, content_type |-> content_type,
     json |-> json]

\* the requests to cancel: one with each content type that is not json,
\* one without an action, and for each execution id one with each action
PostRequests ==
    {ExecRequest(ExecutionIdOf(1), c, JsonMap(NoEntries)) :
        c \in ContentTypes}
    \cup {ExecRequest(e, "application/json", JsonMap("action" :> JStr(a))) :
              e \in ExecutionIds, a \in Actions}

\* the requests to update the status, chosen likewise
StatusRequests ==
    {ExecRequest(ExecutionIdOf(1), c, JsonMap(NoEntries)) :
        c \in ContentTypes}
    \cup {ExecRequest(e, "application/json", JsonMap("status" :> JStr(t))) :
              e \in ExecutionIds, t \in Statuses}

\* an answer given before the execution was looked at
Refused(op, action, kind) ==
    [op |-> op, execution_id |-> "", action |-> action, kind |-> kind,
     engine_asked |-> FALSE, engine_force |-> FALSE]

CancelForceNever(action) == FALSE

\* the force argument of cancel_execution
CancelForce(action) == action = "force-cancel"

\* the status cancel_execution moves an execution to
CancelledStatus(force) == IF force THEN "cancelled" ELSE "cancelling"

\* ExecutionsId.post
ExecutionsIdPost(execution_id, content_type, json) ==
    /\ IF ~JsonContentType(content_type)
       THEN /\ exec_op' = Refused("post", "", "UnsupportedContentType")
            /\ UNCHANGED executions
       ELSE IF ~ParameterInRequestBody("action", json)
       THEN /\ exec_op' = Refused("post", "", "BadParameters")
            /\ UNCHANGED executions
       ELSE IF json.fields["action"].str \notin valid_actions
       THEN /\ exec_op' = Refused("post", json.fields["action"].str,
                                  "BadParameters")
            /\ UNCHANGED executions
       ELSE LET action == json.fields["action"].str
                force == CancelForce(action)
                answer(kind, asked) ==
                    [op |-> "post", execution_id |-> execution_id,
                     action |-> action, kind |-> kind,
                     engine_asked |-> asked,
                     engine_force |-> asked /\ force]
            IN  IF execution_id \notin DOMAIN executions
                THEN /\ exec_op' = answer("NotFound", FALSE)
                     /\ UNCHANGED executions
                ELSE IF executions[execution_id].status \in TerminalStatuses
                THEN /\ exec_op' = answer("IllegalAction", FALSE)
                     /\ UNCHANGED executions
                ELSE /\ exec_op' = answer("201", TRUE)
                     /\ executions' =
                          [executions EXCEPT ![execution_id].status =
                              CancelledStatus(force)]
    /\ UNCHANGED <<starts, upload, storage, api, schema, instances, lifecycle>>

\* ExecutionsId.patch
ExecutionsIdPatch(execution_id, content_type, json) ==
    /\ IF ~JsonContentType(content_type)
       THEN /\ exec_op' = Refused("patch", "", "UnsupportedContentType")
            /\ UNCHANGED executions
       ELSE IF ~ParameterInRequestBody("status", json)
       THEN /\ exec_op' = Refused("patch", "", "BadParameters")
            /\ UNCHANGED executions
       ELSE IF execution_id \notin DOMAIN executions
       THEN /\ exec_op' = Refused("patch", "", "NotFound")
            /\ UNCHANGED executions
       ELSE /\ exec_op' = Refused("patch", "", "200")
            /\ executions' =
                 [executions EXCEPT ![execution_id].status =
                                        json.fields["status"].str,
                                    ![execution_id].error =
                                        JsonGet(json, "error").str]
    /\ UNCHANGED <<starts, upload, storage, api, schema, instances, lifecycle>>

NextWorkflows ==
    \/ \E s \in Starts :
          \/ StartBegin(s)
          \/ StartCheck(s)
          \/ StartCreate(s)
    \/ \E req \in PostRequests :
          ExecutionsIdPost(req.execution_id, req.content_type, req.json)
    \/ \E req \in StatusRequests :
          ExecutionsIdPatch(req.execution_id, req.content_type, req.json)

SpecWorkflows == Init /\ [][NextWorkflows]_vars

(* ------------------- DeploymentsId and BlueprintsId.delete -------------- *)

DeploymentIds == {"d1", "d2"}

\* the node and the node instance of a deployment's plan
NodeIdOf(deployment_id) == "n" \o SubSeq(deployment_id, 2, Len(deployment_id))
InstanceIdOf(deployment_id) ==
    "i" \o SubSeq(deployment_id, 2, Len(deployment_id))

NewDeployment(id) == [blueprint_id |-> id]
NewNode(deployment_id) == [deployment_id |-> deployment_id]
NewInstance(deployment_id) ==
    [StoredInstance EXCEPT !.deployment_id = deployment_id,
                           !.node_id = NodeIdOf(deployment_id)]

\* blueprint "X" as a successful upload of the application leaves it
PublishedBlueprintId == "X"
PublishedStorage ==
    PublishedBlueprintId :>
        PublishedRecord(PublishedBlueprintId,
                        Join(GeneratedAppDirName("app", Uuid4(1)),
                             CONVENTION_APPLICATION_BLUEPRINT_FILE))
PublishedBlueprints ==
    PublishedBlueprintId :>
        ProcessedPlugins(PublishedBlueprintId, TopApp["app"].entries)
PublishedUploaded ==
    PublishedBlueprintId :>
        (ArchiveFileName(PublishedBlueprintId) :> File(Tar(TopApp)))

\* the states of the one instance of deployment "d1" and of an execution
\* on it that the specification of the deployments starts from
InstanceStates == {"uninitialized", "started"}
ExecutionsOnDeployment ==
    {NoEntries}
    \cup {ExecutionIdOf(1) :>
              [NewExecution(DEPLOYMENT, "install") EXCEPT !.status = t] :
              t \in {"running", "terminated"}}

\* blueprint "X" is published; deployment "d1" of it may exist, with its
\* node, its instance and possibly an execution
InitDeployments ==
    /\ InitApi
    /\ InitSchema
    /\ InitClients
    /\ pc = [r \in Requests |-> "idle"]
    /\ transfer_encoded = [r \in Requests |-> FALSE]
    /\ request_data = [r \in Requests |-> EmptyBody]
    /\ request_args = [r \in Requests |-> NoEntries]
    /\ archive_target_path = [r \in Requests |-> ""]
    /\ tempdir = [r \in Requests |-> ""]
    /\ application_dir = [r \in Requests |-> ""]
    /\ application_file = [r \in Requests |-> ""]
    /\ blueprint_id = [r \in Requests |-> ""]
    /\ dsl_result = [r \in Requests |-> "none"]
    /\ outcome = [r \in Requests |-> NoOutcome]
    /\ archives = NoEntries
    /\ staged = NoEntries
    /\ tempdirs = NoEntries
    /\ storage = PublishedStorage
    /\ blueprints = PublishedBlueprints
    /\ uploaded = PublishedUploaded
    /\ patch_pc = [p \in Patches |-> "idle"]
    /\ patch_request = [p \in Patches |-> NoRequest]
    /\ patch_node = [p \in Patches |-> NoNode]
    /\ patch_calls = [p \in Patches |-> 0]
    /\ patch_outcome = [p \in Patches |-> NoOutcome]
    /\ start_pc = [s \in Starts |-> "idle"]
    /\ start_request = [s \in Starts |-> NoStart]
    /\ start_force = [s \in Starts |-> FALSE]
    /\ start_outcome = [s \in Starts |-> NoOutcome]
    /\ exec_op = NoExecOp
    /\ \/ /\ deployments = NoEntries
          /\ nodes = NoEntries
          /\ node_instances = NoEntries
          /\ executions = NoEntries
       \/ /\ deployments = (DEPLOYMENT :> NewDeployment(PublishedBlueprintId))
          /\ nodes = (NodeIdOf(DEPLOYMENT) :> NewNode(DEPLOYMENT))
          /\ \E t \in InstanceStates :
                node_instances =
                    (InstanceIdOf(DEPLOYMENT) :>
                        [StoredInstance EXCEPT !.state = JStr(t)])
          /\ executions \in ExecutionsOnDeployment

\* what the deployment actions leave alone
LifecycleFrame ==
    UNCHANGED <<locals, archives, staged, tempdirs, api, schema, patches,
                workflows>>

ClientFails(c, kind, message) ==
    /\ client_outcome' = [client_outcome EXCEPT ![c] = Raise(kind, message)]
    /\ client_pc' = [client_pc EXCEPT ![c] = "done"]
    /\ client_request' = [client_request EXCEPT ![c] = NoClientRequest]

ClientReturns(c, code) ==
    /\ client_outcome' = [client_outcome EXCEPT ![c] =
                             [kind |-> code, message |-> ""]]
    /\ client_pc' = [client_pc EXCEPT ![c] = "done"]
    /\ client_request' = [client_request EXCEPT ![c] = NoClientRequest]

PutBodies ==
    {JsonMap(NoEntries)}
    \cup {JsonMap("blueprint_id" :> JStr(b)) : b \in BlueprintIds}

\* DeploymentsId.put up to the call of create_deployment
PutBegin(c) ==
    /\ client_pc[c] = "idle"
    /\ \E content_type \in ContentTypes, deployment_id \in DeploymentIds,
          json \in PutBodies :
          IF ~JsonContentType(content_type)
          THEN ClientFails(c, "UnsupportedContentType",
                           "Content type must be application/json")
          ELSE IF ~ParameterInRequestBody("blueprint_id", json)
          THEN ClientFails(c, "BadParameters",
                           "Missing blueprint_id in json request body")
          ELSE /\ client_request' = [client_request EXCEPT ![c] =
                     [deployment_id |-> deployment_id,
                      blueprint_id |-> json.fields["blueprint_id"].str]]
               /\ client_pc' = [client_pc EXCEPT ![c] = "load"]
               /\ UNCHANGED client_outcome
    /\ UNCHANGED <<deployments, nodes, delete_op, node_instances, storage,
                   blueprints, uploaded>>
    /\ LifecycleFrame

\* create_deployment: the blueprint is loaded
PutLoad(c) ==
    /\ client_pc[c] = "load"
    /\ IF client_request[c].blueprint_id \notin DOMAIN storage
       THEN ClientFails(c, "NotFound", "blueprint not found")
       ELSE /\ client_pc' = [client_pc EXCEPT ![c] = "persist"]
            /\ UNCHANGED <<client_request, client_outcome>>
    /\ UNCHANGED <<deployments, nodes, delete_op, node_instances, storage,
                   blueprints, uploaded>>
    /\ LifecycleFrame

\* create_deployment: the deployment, its nodes and its instances are
\* stored, and put answers 201
PutPersist(c) ==
    /\ client_pc[c] = "persist"
    /\ LET d == client_request[c].deployment_id
       IN  IF d \in DOMAIN deployments
           THEN /\ ClientFails(c, "Conflict", "deployment exists")
                /\ UNCHANGED <<deployments, nodes, node_instances>>
           ELSE /\ deployments' =
                     Put(deployments, d,
                         NewDeployment(client_request[c].blueprint_id))
                /\ nodes' = Put(nodes, NodeIdOf(d), NewNode(d))
                /\ node_instances' =
                     Put(node_instances, InstanceIdOf(d), NewInstance(d))
                /\ ClientReturns(c, "201")
    /\ UNCHANGED <<delete_op, storage, blueprints, uploaded>>
    /\ LifecycleFrame

\* the deployments created from a blueprint
DeploymentsOf(id) ==
    {d \in DOMAIN deployments : deployments[d].blueprint_id = id}

\* BlueprintsId.delete: delete_blueprint refuses a blueprint that has
\* deployments and removes the record of one that has none
BlueprintsIdDelete(c) ==
    /\ client_pc[c] = "idle"
    /\ \E id \in BlueprintIds :
          IF id \notin DOMAIN storage
          THEN /\ ClientFails(c, "NotFound", "blueprint not found")
               /\ UNCHANGED storage
          ELSE IF DeploymentsOf(id) # {}
          THEN /\ ClientFails(c, "DependentExists",
                              "blueprint has deployments")
               /\ UNCHANGED storage
          ELSE /\ storage' = Drop(storage, id)
               /\ client_request' = [client_request EXCEPT ![c] =
                     [deployment_id |-> "", blueprint_id |-> id]]
               /\ client_pc' = [client_pc EXCEPT ![c] = "rmtree_blueprint"]
               /\ UNCHANGED client_outcome
    /\ UNCHANGED <<deployments, nodes, delete_op, node_instances, blueprints,
                   uploaded>>
    /\ LifecycleFrame

\* shutil.rmtree(blueprint_folder)
RmtreeBlueprintFolder(c) ==
    /\ client_pc[c] = "rmtree_blueprint"
    /\ IF client_request[c].blueprint_id \notin DOMAIN blueprints
       THEN /\ ClientFails(c, "OSError", "No such file or directory")
            /\ UNCHANGED blueprints
       ELSE /\ blueprints' = Drop(blueprints, client_request[c].blueprint_id)
            /\ client_pc' = [client_pc EXCEPT ![c] = "rmtree_uploaded"]
            /\ UNCHANGED <<client_request, client_outcome>>
    /\ UNCHANGED <<deployments, nodes, delete_op, node_instances, storage,
                   uploaded>>
    /\ LifecycleFrame

RmtreeUploadedFolderSkipped(c) ==
    /\ client_pc[c] = "rmtree_uploaded"
    /\ ClientReturns(c, "200")
    /\ UNCHANGED <<deployments, nodes, delete_op, node_instances, storage,
                   blueprints, uploaded>>
    /\ LifecycleFrame

\* shutil.rmtree(uploaded_blueprint_folder) and the answer 200
RmtreeUploadedFolder(c) ==
    /\ client_pc[c] = "rmtree_uploaded"
    /\ IF client_request[c].blueprint_id \notin DOMAIN uploaded
       THEN /\ ClientFails(c, "OSError", "No such file or directory")
            /\ UNCHANGED uploaded
       ELSE /\ uploaded' = Drop(uploaded, client_request[c].blueprint_id)
            /\ ClientReturns(c, "200")
    /\ UNCHANGED <<deployments, nodes, delete_op, node_instances, storage,
                   blueprints>>
    /\ LifecycleFrame

\* the 'ignore_live_nodes' query argument; 'false' is its default
IgnoreLiveNodesArgs == {"false", "true", "True", "FALSE", "yes"}

\* a node instance that is neither uninitialized nor deleted is live
LiveInstances(deployment_id) ==
    {i \in DOMAIN node_instances :
        /\ node_instances[i].deployment_id = deployment_id
        /\ node_instances[i].state.str \notin {"uninitialized", "deleted"}}

DeleteAnswer(deployment_id, ignore_live_nodes, kind) ==
    [deployment_id |-> deployment_id, ignore_live_nodes |-> ignore_live_nodes,
     kind |-> kind]

\* the storage without the records of a deployment
WithoutDeployment(records, deployment_id) ==
    [x \in {y \in DOMAIN records : records[y].deployment_id # deployment_id}
        |-> records[x]]

\* delete_deployment
DeleteDeployment(deployment_id, arg, ignore_live_nodes) ==
    IF deployment_id \notin DOMAIN deployments
    THEN /\ delete_op' = DeleteAnswer(deployment_id, arg, "NotFound")
         /\ UNCHANGED <<deployments, nodes, node_instances>>
    ELSE IF \/ ActiveExecutions(deployment_id) # {}
            \/ ~ignore_live_nodes /\ LiveInstances(deployment_id) # {}
    THEN /\ delete_op' = DeleteAnswer(deployment_id, arg, "DependentExists")
         /\ UNCHANGED <<deployments, nodes, node_instances>>
    ELSE /\ delete_op' = DeleteAnswer(deployment_id, arg, "200")
         /\ node_instances' = WithoutDeployment(node_instances, deployment_id)
         /\ nodes' = WithoutDeployment(nodes, deployment_id)
         /\ deployments' = Drop(deployments, deployment_id)

\* DeploymentsId.delete
DeploymentsIdDelete(deployment_id, arg) ==
    /\ IF NotBool(arg)
       THEN /\ delete_op' = DeleteAnswer(deployment_id, arg, "BadParameters")
            /\ UNCHANGED <<deployments, nodes, node_instances>>
       ELSE DeleteDeployment(deployment_id, arg, ConvertBool(arg))
    /\ UNCHANGED <<clients, storage, blueprints, uploaded>>
    /\ LifecycleFrame

NextDeployments ==
    \/ \E c \in Clients :
          \/ PutBegin(c)
          \/ PutLoad(c)
          \/ PutPersist(c)
          \/ BlueprintsIdDelete(c)
          \/ RmtreeBlueprintFolder(c)
          \/ RmtreeUploadedFolder(c)
    \/ \E deployment_id \in DeploymentIds, arg \in IgnoreLiveNodesArgs :
          DeploymentsIdDelete(deployment_id, arg)

SpecDeployments == InitDeployments /\ [][NextDeployments]_vars

(* ------------------- one caller: requests in sequence ------------------ *)

\* no upload and no blueprint deletion is being served
NoRequestInFlight ==
    /\ \A r \in Requests : pc[r] \in {"idle", "done"}
    /\ \A c \in Clients : client_pc[c] \in {"idle", "done"}

\* the uploads are numbered in the order they are sent, and so are the
\* deletions
NextUpload(r) == \A q \in Requests : q < r => pc[q] = "done"
NextDeletion(c) == \A d \in Clients : d < c => client_pc[d] = "done"

\* uploads and blueprint deletions sent one after another: a request is
\* sent when the answer to the one before has come
NextBlueprints ==
    \/ /\ UNCHANGED <<api, schema, instances, workflows, lifecycle>>
       /\ \E r \in Requests :
             \/ NoRequestInFlight /\ NextUpload(r) /\ DoRequest(r)
             \/ SaveFileLocally(r)
             \/ ExtractOpen(r)
             \/ ExtractCheckAndMove(r)
             \/ ExtractApplicationFile(r)
             \/ PublishBlueprint(r)
             \/ MoveToBlueprintsFolder(r)
             \/ ProcessPlugins(r)
             \/ MoveArchiveToUploadedBlueprintsDir(r)
             \/ Finally(r)
             \/ ArchiveVanishes(r)
    \/ \E c \in Clients :
          \/ NoRequestInFlight /\ NextDeletion(c) /\ BlueprintsIdDelete(c)
          \/ RmtreeBlueprintFolder(c)
          \/ RmtreeUploadedFolder(c)

\* the sequence starts with blueprint "X" published, with or without a
\* deployment created from it
InitBlueprints ==
    /\ InitDeployments
    /\ executions = NoEntries
    /\ \A i \in DOMAIN node_instances :
          node_instances[i].state = StoredInstance.state

SpecBlueprints == InitBlueprints /\ [][NextBlueprints]_vars

(* ----------------------- running the migration ------------------------ *)

\* one statement on the database: CREATE TYPE fails when the type exists,
\* ADD COLUMN when the table is missing, the column exists or its type does
\* not, DROP COLUMN when the column is missing, DROP TYPE when the type is
\* missing or a column still uses it
Execute(stmt, types, enum_tables) ==
    IF stmt.op = "create_type"
    THEN [ok |-> resource_availability \notin types,
          types |-> types \cup {resource_availability},
          columns |-> enum_tables]
    ELSE IF stmt.op = "add_column"
    THEN [ok |-> /\ stmt.table \in ResourceTables \cup OtherTables
                 /\ stmt.table \notin enum_tables
                 /\ resource_availability \in types,
          types |-> types,
          columns |-> enum_tables \cup {stmt.table}]
    ELSE IF stmt.op = "drop_column"
    THEN [ok |-> stmt.table \in enum_tables,
          types |-> types,
          columns |-> enum_tables \ {stmt.table}]
    ELSE [ok |-> resource_availability \in types /\ enum_tables = {},
          types |-> types \ {resource_availability},
          columns |-> enum_tables]

MigrationFrame ==
    UNCHANGED <<upload, storage, api, instances, workflows, lifecycle,
                prior_columns>>

\* alembic starts function fn when the database is at the revision from
\* and no migration runs
Run(fn, from) ==
    /\ migration_running = "none"
    /\ ~migration_failed
    /\ alembic_version = from
    /\ Len(migration_history) < NumMigrations
    /\ migration_running' = fn
    /\ migration_stmt' = 0
    /\ UNCHANGED <<db_types, db_columns, alembic_version, migration_failed,
                   migration_history>>
    /\ MigrationFrame

\* the next statement of the running function; after the last one alembic
\* stamps the database with the revision to
Statement(fn, statements, to) ==
    /\ migration_running = fn
    /\ LET done == Execute(statements[migration_stmt + 1], db_types,
                           db_columns)
       IN  IF ~done.ok
           THEN /\ migration_failed' = TRUE
                /\ migration_running' = "none"
                /\ UNCHANGED <<db_types, db_columns, alembic_version,
                               migration_stmt, migration_history>>
           ELSE /\ db_types' = done.types
                /\ db_columns' = done.columns
                /\ migration_stmt' = migration_stmt + 1
                /\ UNCHANGED migration_failed
                /\ IF migration_stmt + 1 = Len(statements)
                   THEN /\ migration_running' = "none"
                        /\ alembic_version' = to
                        /\ migration_history' =
                              Append(migration_history, fn)
                   ELSE UNCHANGED <<migration_running, alembic_version,
                                    migration_history>>
    /\ MigrationFrame

RunUpgrade == Run("upgrade", down_revision)
UpgradeStatement == Statement("upgrade", upgrade, revision)
RunDowngrade == Run("downgrade", revision)
DowngradeStatement == Statement("downgrade", downgrade, down_revision)

NextMigration ==
    \/ RunUpgrade
    \/ UpgradeStatement
    \/ RunDowngrade
    \/ DowngradeStatement

\* the migration may find any of the prior schemas
InitMigration ==
    /\ InitApi
    /\ InitInstances
    /\ InitWorkflows
    /\ InitLifecycle
    /\ InitUpload
    /\ \E extra \in SUBSET ResourceColumns : InitSchemaOf(extra)

SpecMigration == InitMigration /\ [][NextMigration]_vars

(* ------------------------------ properties ----------------------------- *)

InFlight(r) == pc[r] \notin {"idle", "done"}

\* the request r takes a step of do_request
Steps(r) == pc'[r] # pc[r]

\* the request r returns from do_request or lets its exception out
Returns(r) == pc[r] = "finally" /\ pc'[r] = "done"

ExactlyOneDirectory(listing) ==
    /\ Cardinality(DOMAIN listing) = 1
    /\ \A name \in DOMAIN listing : listing[name].kind = "dir"

IsSubstring(sub, str) ==
    \E i \in 1..(Len(str) + 1 - Len(sub)) :
        SubSeq(str, i, i + Len(sub) - 1) = sub

\* C1: a request that failed with BadParameters, Conflict or InvalidBlueprint
\* after it had staged its directory in the shared root has left no staged
\* directory behind.
C1_StagedDirRemovedOnFailure ==
    \A r \in Requests :
        ( /\ pc[r] = "done"
          /\ application_dir[r] # ""
          /\ outcome[r].kind \in {"BadParameters", "Conflict",
                                  "InvalidBlueprint"} )
        => application_dir[r] \notin DOMAIN staged

\* C2: once do_request has returned or raised, whatever its outcome, no file
\* exists at the request's scratch archive path.
C2_NoScratchArchiveAfterRequest ==
    \A r \in Requests :
        pc[r] = "done" => archive_target_path[r] \notin DOMAIN archives

\* a request that wrote its scratch archive, staged its directory and then
\* failed has returned
C2_Witness ==
    \E r \in Requests :
        /\ pc[r] = "done"
        /\ application_dir[r] # ""
        /\ outcome[r].kind = "Conflict"

\* C3: the step that lists the extraction directory always removes that
\* directory; when the listing is not exactly one directory it fails with
\* BadParameters and leaves the shared root untouched.
C3_ExtractionCleansUp ==
    [][ \A r \in Requests :
          (pc[r] = "listdir" /\ Steps(r)) =>
             /\ tempdir[r] \in DOMAIN tempdirs
             /\ tempdir[r] \notin DOMAIN tempdirs'
             /\ ~ExactlyOneDirectory(tempdirs[tempdir[r]]) =>
                   /\ outcome'[r].kind = "BadParameters"
                   /\ pc'[r] = "finally"
                   /\ application_dir'[r] = ""
                   /\ UNCHANGED <<archives, staged, blueprints, uploaded>>
             /\ ExactlyOneDirectory(tempdirs[tempdir[r]]) =>
                   /\ outcome'[r].kind = "none"
                   /\ application_dir'[r] \in DOMAIN staged'
      ]_vars

\* an archive with a single top-level file was rejected and an archive with
\* a single directory was staged
C3_Witness ==
    \E r, q \in Requests :
        /\ outcome[r].message = "archive must contain exactly 1 directory"
        /\ tempdir[r] # "" /\ tempdir[r] \notin DOMAIN tempdirs
        /\ pc[q] = "resolve"
        /\ tempdir[q] # "" /\ tempdir[q] \notin DOMAIN tempdirs

\* the file or directory an area holds under a name is the same before and
\* after the step
SameEntry(area, areaNext, name) ==
    /\ (name \in DOMAIN area) = (name \in DOMAIN areaNext)
    /\ name \in DOMAIN area => areaNext[name] = area[name]

\* C4: a step of one upload leaves the scratch archive and the staged
\* directory of every other in-flight upload as they were, and the paths it
\* works on differ from the paths of every other in-flight upload, also
\* when both archives have the same top-level directory name.
C4_UploadsDoNotInterfere ==
    [][ \A r, q \in Requests :
          (r # q /\ Steps(r) /\ InFlight(q)) =>
             /\ SameEntry(archives, archives', archive_target_path[q])
             /\ application_dir[q] # "" =>
                   SameEntry(staged, staged', application_dir[q])
             /\ archive_target_path'[r] # archive_target_path'[q]
             /\ application_dir'[r] # "" =>
                   application_dir'[r] # application_dir'[q]
      ]_vars

\* two uploads of archives with the same top-level directory have both
\* their staged directories in the shared root
C4_Witness ==
    \E r, q \in Requests :
        /\ r # q
        /\ pc[r] = "publish" /\ pc[q] = "publish"
        /\ application_dir[r] \in DOMAIN staged
        /\ application_dir[q] \in DOMAIN staged
        /\ staged[application_dir[r]] = staged[application_dir[q]]

\* C5: a publish under an id that already has a Blueprint record ends in
\* Conflict; a request that ended in Conflict changes neither the records
\* nor blueprints/ nor uploaded-blueprints/; and no two requests return 201
\* for the same id, whatever the interleaving.
C5_SecondPublishConflicts ==
    [][ /\ \A r \in Requests :
             ( /\ pc[r] = "publish" /\ Steps(r)
               /\ dsl_result'[r] = "plan"
               /\ blueprint_id'[r] \in DOMAIN storage )
             => /\ outcome'[r].kind = "Conflict"
                /\ pc'[r] = "finally"
        /\ \A r \in Requests :
             (Steps(r) /\ outcome'[r].kind = "Conflict")
             => UNCHANGED <<storage, blueprints, uploaded>>
        /\ \A r, q \in Requests :
             ( /\ r # q
               /\ outcome'[r].kind = "201"
               /\ outcome'[q].kind = "201" )
             => blueprint_id'[r] # blueprint_id'[q]
      ]_vars

\* one upload returned 201 and another upload of the same id ended in
\* Conflict
C5_Witness ==
    \E r, q \in Requests :
        /\ pc[r] = "done" /\ outcome[r].kind = "201"
        /\ pc[q] = "done" /\ outcome[q].kind = "Conflict"
        /\ blueprint_id[r] = blueprint_id[q]

\* the directory of the uploaded archive that became the staged directory
UploadedApplicationDir(id) ==
    LET top == uploaded[id][id \o ".tar.gz"].data.top
    IN  top[CHOOSE name \in DOMAIN top : TRUE].entries

\* C6: at the moment do_request returns 201 for blueprint id X, the record X
\* exists, blueprints/X holds the entries of the uploaded application
\* directory (plugins apart, which gain their zips), uploaded-blueprints/X
\* holds X.tar.gz, and the staged directory is gone from the shared root.
C6_SuccessPostcondition ==
    [][ \A r \in Requests :
          (Returns(r) /\ outcome[r].kind = "201") =>
             LET X == blueprint_id[r]
             IN  /\ X \in DOMAIN storage'
                 /\ storage'[X].id = X
                 /\ X \in DOMAIN blueprints'
                 /\ X \in DOMAIN uploaded'
                 /\ (X \o ".tar.gz") \in DOMAIN uploaded'[X]
                 /\ \A name \in DOMAIN UploadedApplicationDir(X)' :
                       /\ name \in DOMAIN blueprints'[X]
                       /\ name # "plugins" =>
                             blueprints'[X][name] =
                                 UploadedApplicationDir(X)'[name]
                 /\ application_dir[r] \notin DOMAIN staged'
      ]_vars

\* an upload of an archive with blueprint.yaml has returned 201
C6_Witness ==
    \E r \in Requests :
        /\ pc[r] = "done" /\ outcome[r].kind = "201"
        /\ blueprint_id[r] \in DOMAIN blueprints
        /\ "blueprint.yaml" \in DOMAIN blueprints[blueprint_id[r]]

\* a regular file of that name lies directly inside the staged directory
HasRegularFile(dir, name) ==
    /\ dir \in DOMAIN staged
    /\ name \in DOMAIN staged[dir]
    /\ staged[dir][name].kind \in {"file", "zip"}

\* C7: without the application_file_name argument, the resolve step goes on
\* to publish iff blueprint.yaml is a regular file directly inside the staged
\* directory; otherwise it fails with BadParameters, and a request that
\* failed so never had the parser invoked nor a record inserted.
C7_DefaultEntryDocument ==
    [][ \A r \in Requests :
          /\ ( /\ pc[r] = "resolve" /\ Steps(r)
               /\ "application_file_name" \notin DOMAIN request_args'[r] )
             => /\ (pc'[r] = "publish") =
                      HasRegularFile(application_dir[r], "blueprint.yaml")
                /\ pc'[r] = "publish" =>
                      application_file'[r] =
                          application_dir[r] \o "/blueprint.yaml"
                /\ pc'[r] # "publish" =>
                      /\ outcome'[r].kind = "BadParameters"
                      /\ pc'[r] = "finally"
                      /\ UNCHANGED storage
          /\ ( /\ Steps(r)
               /\ outcome'[r].kind = "BadParameters"
               /\ application_dir'[r] # "" )
             => /\ dsl_result'[r] = "none"
                /\ blueprint_id'[r] = ""
                /\ UNCHANGED storage
      ]_vars

\* a default-name resolution failed because blueprint.yaml is a directory,
\* and another one succeeded
C7_Witness ==
    \E r, q \in Requests :
        /\ pc[r] = "done" /\ outcome[r].kind = "BadParameters"
        /\ application_dir[r] \in DOMAIN staged
        /\ "blueprint.yaml" \in DOMAIN staged[application_dir[r]]
        /\ pc[q] = "publish"
        /\ "application_file_name" \notin DOMAIN request_args[q]

\* C8: when the parser raises a parse error, the publish step fails with
\* InvalidBlueprint whose message carries the parser's detail, the staged
\* directory is removed, and neither that step nor any later step of the
\* request changes the records, blueprints/ or uploaded-blueprints/.
C8_ParseErrorBecomesInvalidBlueprint ==
    [][ \A r \in Requests :
          /\ ( /\ pc[r] = "publish" /\ Steps(r)
               /\ dsl_result'[r] \in ParseErrors )
             => /\ outcome'[r].kind = "InvalidBlueprint"
                /\ IsSubstring(dsl_result'[r], outcome'[r].message)
                /\ application_dir[r] \in DOMAIN staged
                /\ application_dir[r] \notin DOMAIN staged'
          /\ (Steps(r) /\ outcome'[r].kind = "InvalidBlueprint")
             => /\ dsl_result'[r] \in ParseErrors
                /\ UNCHANGED <<storage, blueprints, uploaded>>
      ]_vars

\* a request has returned InvalidBlueprint
C8_Witness ==
    \E r \in Requests :
        /\ pc[r] = "done"
        /\ outcome[r].kind = "InvalidBlueprint"
        /\ dsl_result[r] = "missing-import"

\* C9: when the scratch archive is missing at the final move, the request
\* fails with an error that is not one of the typed kinds,
\* uploaded-blueprints/ is not touched, and the record and blueprints/{id}
\* are still there when the request returns.
C9_MissingArchiveIsFatal ==
    [][ \A r \in Requests :
          /\ ( /\ pc[r] = "move_archive" /\ Steps(r)
               /\ archive_target_path[r] \notin DOMAIN archives )
             => /\ outcome'[r].kind \notin TypedKinds \cup {"201", "none"}
                /\ pc'[r] = "finally"
                /\ blueprint_id[r] \notin DOMAIN uploaded'
                /\ UNCHANGED <<storage, blueprints, uploaded>>
          /\ (Returns(r) /\ outcome[r].kind = "RuntimeError")
             => /\ blueprint_id[r] \in DOMAIN storage'
                /\ blueprint_id[r] \in DOMAIN blueprints'
                /\ blueprint_id[r] \notin DOMAIN uploaded'
                /\ UNCHANGED <<storage, blueprints, uploaded>>
      ]_vars

\* a request whose scratch archive had vanished has returned
C9_Witness ==
    \E r \in Requests :
        /\ pc[r] = "done"
        /\ outcome[r].kind = "RuntimeError"

\* C10: a buffered request with an empty body fails with BadParameters in
\* the save step, and neither that step nor the rest of the request creates
\* a scratch archive, an extraction directory, a staged directory or a
\* record.
C10_EmptyBufferedBody ==
    [][ \A r \in Requests :
          /\ ( /\ pc[r] = "save" /\ Steps(r)
               /\ ~transfer_encoded[r]
               /\ request_data[r].fmt = "empty" )
             => /\ outcome'[r].kind = "BadParameters"
                /\ outcome'[r].message =
                      "Missing application archive in request body"
                /\ pc'[r] = "finally"
                /\ UNCHANGED <<files, storage>>
          /\ ( /\ Steps(r)
               /\ outcome'[r].message =
                     "Missing application archive in request body" )
             => /\ UNCHANGED <<files, storage>>
                /\ tempdir'[r] = ""
                /\ application_dir'[r] = ""
                /\ archive_target_path[r] \notin DOMAIN archives'
      ]_vars

\* a buffered request with an empty body has returned
C10_Witness ==
    \E r \in Requests :
        /\ pc[r] = "done"
        /\ outcome[r].message = "Missing application archive in request body"

\* the typed kinds of the error taxonomy
TaxonomyKinds ==
    {"BadParameters", "Conflict", "NotFound", "DependentExists",
     "InvalidBlueprint", "ExistingRunningExecution", "NonexistentWorkflow",
     "IllegalAction", "UnsupportedContentType"}

\* C11: a resource operation whose body fails with one of the typed kinds
\* answers with that error's own http code and error code.
C11_TypedFailuresSurface ==
    api_raised.kind \in TaxonomyKinds =>
        /\ api_response.http_code = api_raised.http_code
        /\ api_response.error_code = api_raised.error_code

\* the version a request's body submits
SubmittedVersion(p) == patch_request[p].json.fields["version"].int

\* the request's update was accepted by the storage
Applied(p) == patch_pc[p] = "get" \/ patch_outcome[p].kind = "200"

\* C12: an update of an existing node instance whose submitted version is
\* not the stored version fails with Conflict and leaves the stored
\* instance as it was.
C12_StaleVersionConflicts ==
    [][\A p \in Patches :
          (/\ patch_pc[p] = "update"
           /\ patch_calls'[p] # patch_calls[p]
           /\ patch_request[p].id \in DOMAIN node_instances
           /\ SubmittedVersion(p) # node_instances[patch_request[p].id].version)
          => /\ patch_outcome'[p].kind = "Conflict"
             /\ node_instances' = node_instances]_vars

C12_Witness ==
    \E p \in Patches :
        /\ patch_outcome[p].kind = "Conflict"
        /\ patch_calls[p] = 1
        /\ SubmittedVersion(p) # node_instances[patch_request[p].id].version
        /\ node_instances[patch_request[p].id] = StoredInstance

\* C20: of the update requests that submit the same version of the same
\* node instance at most one is applied and every other one that reached
\* the storage ends with Conflict; a request calls the storage update at
\* most once.
C20_ConcurrentUpdatesSerialize ==
    /\ \A p \in Patches : patch_calls[p] <= 1
    /\ \A p, q \in Patches :
          (/\ p # q
           /\ patch_calls[p] = 1
           /\ patch_calls[q] = 1
           /\ patch_request[p].id = patch_request[q].id
           /\ SubmittedVersion(p) = SubmittedVersion(q)
           /\ Applied(p))
          => /\ ~Applied(q)
             /\ patch_outcome[q].kind = "Conflict"

C20_Witness ==
    \E p, q \in Patches :
        /\ p # q
        /\ patch_request[p].id = patch_request[q].id
        /\ patch_calls[p] = 1
        /\ patch_calls[q] = 1
        /\ SubmittedVersion(p) = SubmittedVersion(q)
        /\ patch_outcome[p].kind = "200"
        /\ patch_outcome[q].kind = "Conflict"
        /\ node_instances[patch_request[p].id].version = SubmittedVersion(p) + 1

\* the force argument a start request asks for
RequestedForce(s) == Lower(start_request[s].force) = "true"

\* C13: a start that finds a non-terminal execution of the deployment fails
\* with ExistingRunningExecution and creates nothing when force is false,
\* and goes on to create its own Execution record when force is true.
C13_ForceGovernsConcurrentStart ==
    [][\A s \in Starts :
          /\ (/\ start_pc[s] = "check"
              /\ start_pc'[s] # "check"
              /\ start_request[s].workflow_id \in DeploymentWorkflows
              /\ ActiveExecutions(DEPLOYMENT) # {})
             => /\ executions' = executions
                /\ IF RequestedForce(s)
                   THEN start_pc'[s] = "create"
                   ELSE /\ start_pc'[s] = "done"
                        /\ start_outcome'[s].kind = "ExistingRunningExecution"
          /\ (start_pc[s] = "create" /\ start_pc'[s] # "create")
             => /\ ExecutionIdOf(s) \notin DOMAIN executions
                /\ DOMAIN executions' =
                       DOMAIN executions \cup {ExecutionIdOf(s)}
                /\ \A e \in DOMAIN executions : executions'[e] = executions[e]
                /\ executions'[ExecutionIdOf(s)].deployment_id = DEPLOYMENT
                /\ executions'[ExecutionIdOf(s)].status = "pending"
                /\ start_outcome'[s] = Created]_vars

C13_Witness ==
    \E s, t \in Starts :
        /\ start_outcome[s] = Created
        /\ start_force[s]
        /\ start_outcome[t] = Created
        /\ ~start_force[t]
        /\ ActiveExecutions(DEPLOYMENT) = {ExecutionIdOf(s), ExecutionIdOf(t)}
        /\ exec_op = NoExecOp

\* the status changes of the Execution state machine
LegalTransitions ==
    {<<"pending", "running">>, <<"running", "terminated">>,
     <<"running", "failed">>, <<"running", "cancelling">>,
     <<"cancelling", "cancelled">>}

\* C14: the status of an execution only changes along the transitions of
\* the state machine, so a terminal status never changes.
C14_StatusFollowsStateMachine ==
    [][\A e \in DOMAIN executions :
          (e \in DOMAIN executions'
           /\ executions'[e].status # executions[e].status)
          => <<executions[e].status, executions'[e].status>>
                 \in LegalTransitions]_vars

\* a step of ExecutionsId.post
PostStep ==
    /\ exec_op'.op = "post"
    /\ starts' = starts
    /\ <<executions, exec_op>>' # <<executions, exec_op>>

\* C15: a cancel request with an action that is not valid is refused with
\* BadParameters and the engine is not asked; for an unknown execution it
\* fails with NotFound, for a terminal one with IllegalAction and no
\* change; otherwise the execution moves to cancelling or cancelled and
\* the engine is asked with force exactly for 'force-cancel'.
C15_CancelOutcomes ==
    [][PostStep =>
          LET a == exec_op'.action
              e == exec_op'.execution_id
          IN  /\ a = "" => /\ exec_op'.kind \in {"BadParameters",
                                                "UnsupportedContentType"}
                           /\ ~exec_op'.engine_asked
                           /\ executions' = executions
              /\ (a # "" /\ a \notin valid_actions)
                 => /\ exec_op'.kind = "BadParameters"
                    /\ ~exec_op'.engine_asked
                    /\ executions' = executions
              /\ (a \in valid_actions /\ e \notin DOMAIN executions)
                 => /\ exec_op'.kind \in {"NotFound", "NonexistentWorkflow"}
                    /\ ~exec_op'.engine_asked
                    /\ executions' = executions
              /\ (/\ a \in valid_actions
                  /\ e \in DOMAIN executions
                  /\ executions[e].status \in TerminalStatuses)
                 => /\ exec_op'.kind = "IllegalAction"
                    /\ ~exec_op'.engine_asked
                    /\ executions' = executions
              /\ (/\ a \in valid_actions
                  /\ e \in DOMAIN executions
                  /\ executions[e].status \notin TerminalStatuses)
                 => /\ exec_op'.kind = "201"
                    /\ exec_op'.engine_asked
                    /\ exec_op'.engine_force = (a = "force-cancel")
                    /\ executions'[e].status \in {"cancelling", "cancelled"}
                    /\ \A o \in DOMAIN executions \ {e} :
                          executions'[o] = executions[o]]_vars

C15_Witness ==
    /\ exec_op.op = "post"
    /\ exec_op.action = "force-cancel"
    /\ exec_op.kind = "201"
    /\ exec_op.engine_asked
    /\ exec_op.engine_force
    /\ exec_op.execution_id \in DOMAIN executions
    /\ executions[exec_op.execution_id].status = "cancelled"

\* C19: unless a start request was made with force, the deployment never
\* has more than one non-terminal execution.
C19_OneActiveExecution ==
    (\A s \in Starts : ~start_force[s])
    => Cardinality(ActiveExecutions(DEPLOYMENT)) <= 1

\* a step of DeploymentsId.delete
DeleteStep ==
    /\ clients' = clients
    /\ <<delete_op, deployments>>' # <<delete_op, deployments>>

\* the step removed nothing
NothingDeleted == UNCHANGED <<deployments, nodes, node_instances>>

\* after the step the deployment, its nodes and its instances are gone
Cascaded(d) ==
    /\ d \notin DOMAIN deployments'
    /\ \A n \in DOMAIN nodes' : nodes'[n].deployment_id # d
    /\ \A i \in DOMAIN node_instances' :
          node_instances'[i].deployment_id # d
    /\ \A o \in DOMAIN deployments \ {d} :
          o \in DOMAIN deployments' /\ deployments'[o] = deployments[o]

C17_DeploymentsReferenceBlueprints ==
    \A d \in DOMAIN deployments :
        /\ deployments[d].blueprint_id \in DOMAIN storage
        /\ deployments[d].blueprint_id \in DOMAIN blueprints

\* the steps of an upload in their order
UploadSteps ==
    <<"idle", "save", "extract", "listdir", "resolve", "publish",
      "move_blueprint", "process_plugins", "move_archive">>

\* a step is followed by the next one, or by the finally block when it
\* failed or was the last one
StepOrder ==
    {<<UploadSteps[i], UploadSteps[i + 1]>> : i \in 1..(Len(UploadSteps) - 1)}
    \cup {<<UploadSteps[i], "finally">> : i \in 2..Len(UploadSteps)}
    \cup {<<"finally", "done">>}

\* the steps of every request follow the order
StepsInOrder == \A r \in Requests : Steps(r) => <<pc[r], pc'[r]>> \in StepOrder

\* a directory blueprints/{id} appears only under the id of a stored record
RecordBeforeDirectory ==
    \A id \in DOMAIN blueprints' \ DOMAIN blueprints : id \in DOMAIN storage

\* a request that ends in failure leaves none of the files it made in the
\* file-server root and none of its temporary directories
FailureRolledBack ==
    \A r \in Requests :
        (Returns(r) /\ outcome[r].kind # "201")
        => /\ archive_target_path[r] \notin DOMAIN archives'
           /\ tempdir[r] \notin DOMAIN tempdirs'
           /\ application_dir[r] \notin DOMAIN staged'

\* C18: the steps of an upload run in their fixed order, each only after
\* the earlier ones succeeded; blueprints/{id} is created only after the
\* record with that id was inserted; and a request whose step failed has
\* rolled back what it had done.
C18_OrderedStepsWithRollback ==
    [][StepsInOrder /\ RecordBeforeDirectory /\ FailureRolledBack]_vars

\* the request's body is a map whose "version" is an int
WellFormedBody(p) ==
    /\ patch_request[p].json.class = "dict"
    /\ "version" \in DOMAIN patch_request[p].json.fields
    /\ patch_request[p].json.fields["version"].class = "int"

\* C21: a node instance update whose content type is not application/json
\* fails with UnsupportedContentType whatever its body is; one with a json
\* content type whose body is not a map, has no "version" or has a
\* "version" that is not an int fails with BadParameters; in both cases the
\* storage update is never called and the stored instances are unchanged.
C21_MalformedUpdateRejected ==
    [][\A p \in Patches :
          (patch_pc[p] = "idle" /\ patch_pc'[p] # "idle") =>
             /\ patch_request'[p].content_type # "application/json" =>
                   /\ patch_outcome'[p].kind = "UnsupportedContentType"
                   /\ patch_pc'[p] = "done"
                   /\ patch_calls'[p] = 0
                   /\ node_instances' = node_instances
             /\ (/\ patch_request'[p].content_type = "application/json"
                 /\ ~WellFormedBody(p)') =>
                   /\ patch_outcome'[p].kind = "BadParameters"
                   /\ patch_pc'[p] = "done"
                   /\ patch_calls'[p] = 0
                   /\ node_instances' = node_instances]_vars

\* a map whose "version" is a string was refused with BadParameters and a list
\* body with a wrong content type with UnsupportedContentType, the storage
\* never called
C21_Witness ==
    /\ \E p \in Patches :
          /\ patch_outcome[p].kind = "BadParameters"
          /\ patch_request[p].json.class = "dict"
          /\ "version" \in DOMAIN patch_request[p].json.fields
          /\ patch_request[p].json.fields["version"].class = "str"
          /\ patch_calls[p] = 0
          /\ patch_pc[p] = "done"
    /\ \E p \in Patches :
          /\ patch_outcome[p].kind = "UnsupportedContentType"
          /\ patch_request[p].json.class = "list"
          /\ patch_calls[p] = 0
    /\ node_instances["i1"] = StoredInstance

\* the files below a directory, named by their paths relative to the
\* directory's parent: rel is the directory's own path in the parent
RECURSIVE FilesUnder(_, _)
FilesUnder(rel, entries) ==
    UNION { IF entries[name].kind = "dir"
            THEN FilesUnder(rel \o "/" \o name, entries[name].entries)
            ELSE {[arcname |-> rel \o "/" \o name, node |-> entries[name]]}
          : name \in DOMAIN entries }

\* t begins with the prefix
StartsWith(t, prefix) ==
    Len(t) >= Len(prefix) /\ SubSeq(t, 1, Len(prefix)) = prefix

\* a request takes the plugin-packaging step
PackagingStep(r) == pc[r] = "process_plugins" /\ pc'[r] # "process_plugins"

\* C22: the plugin-packaging step of a publish leaves everything as it was
\* when blueprints/{id}/plugins is no directory; otherwise it adds, for
\* every immediate subdirectory p of plugins and for nothing else, a zip
\* p.zip to plugins whose entries are exactly the files under p, each named
\* by its path relative to plugins (it begins with "p/", not with "/"),
\* and it leaves every other entry of the blueprint as it was.
C22_PluginsZipped ==
    [][\A r \in Requests :
          (PackagingStep(r) /\ blueprint_id[r] \in DOMAIN blueprints) =>
             LET id == blueprint_id[r]
                 before == blueprints[id]
                 after == blueprints'[id]
             IN  IF ~IsDirIn(before, "plugins")
                 THEN blueprints' = blueprints
                 ELSE LET listing == before["plugins"].entries
                          listed == after["plugins"].entries
                          dirs == {p \in DOMAIN listing :
                                      listing[p].kind = "dir"}
                      IN  /\ DOMAIN after = DOMAIN before
                          /\ \A x \in DOMAIN before \ {"plugins"} :
                                after[x] = before[x]
                          /\ after["plugins"].kind = "dir"
                          /\ DOMAIN listed =
                                DOMAIN listing \cup {p \o ".zip" : p \in dirs}
                          /\ \A p \in dirs :
                                /\ listed[p] = listing[p]
                                /\ listed[p \o ".zip"].kind = "zip"
                                /\ listed[p \o ".zip"].members =
                                      FilesUnder(p, listing[p].entries)
                                /\ \A m \in listed[p \o ".zip"].members :
                                      /\ StartsWith(m.arcname, p \o "/")
                                      /\ ~StartsWith(m.arcname, "/")
                          /\ \A e \in DOMAIN listing \ dirs :
                                /\ listed[e] = listing[e]
                                /\ (e \o ".zip") \notin DOMAIN listed]_vars

\* one request packaged the plugin p1 of its blueprint, with a nested file,
\* and made no zip of the file notes.txt; another went through the step
\* with a blueprint that has no plugins directory
C22_Witness ==
    \E r, q \in Requests :
        /\ pc[r] \in {"move_archive", "finally", "done"}
        /\ blueprint_id[r] \in DOMAIN blueprints
        /\ IsDirIn(blueprints[blueprint_id[r]], "plugins")
        /\ LET listed == blueprints[blueprint_id[r]]["plugins"].entries
           IN  /\ "p1.zip" \in DOMAIN listed
               /\ listed["p1.zip"].kind = "zip"
               /\ {m.arcname : m \in listed["p1.zip"].members} =
                     {"p1/a.py", "p1/sub/b.py"}
               /\ "notes.txt" \in DOMAIN listed
               /\ "notes.txt.zip" \notin DOMAIN listed
        /\ pc[q] \in {"move_archive", "finally", "done"}
        /\ blueprint_id[q] \in DOMAIN blueprints
        /\ ~IsDirIn(blueprints[blueprint_id[q]], "plugins")

\* the blueprint a deletion in progress is about
Deleting(c) == client_request[c].blueprint_id

\* nothing about the blueprint id is left: no record, no directory under
\* blueprints, none under uploaded-blueprints
Absent(id) ==
    /\ id \notin DOMAIN storage
    /\ id \notin DOMAIN blueprints
    /\ id \notin DOMAIN uploaded

\* the entries of the one top-level directory of an archive
UploadedEntries(top) ==
    IF \E name \in DOMAIN top : top[name].kind = "dir"
    THEN top[CHOOSE name \in DOMAIN top : top[name].kind = "dir"].entries
    ELSE NoEntries

\* what a single successful upload by request r leaves under its id: the
\* record of its entry document, the archive alone in its directory under
\* uploaded-blueprints, and under blueprints the application directory of
\* that very archive with its plugins packaged
SingleUpload(r) ==
    LET id == blueprint_id[r]
    IN  /\ id \in DOMAIN storage
        /\ storage[id] = PublishedRecord(id, application_file[r])
        /\ id \in DOMAIN uploaded
        /\ DOMAIN uploaded[id] = {ArchiveFileName(id)}
        /\ uploaded[id][ArchiveFileName(id)].kind = "file"
        /\ uploaded[id][ArchiveFileName(id)].data \in Bodies
        /\ id \in DOMAIN blueprints
        /\ blueprints[id] =
              ProcessedPlugins(id,
                  UploadedEntries(uploaded[id][ArchiveFileName(id)].data.top))

\* C23: with the requests sent one after another, a blueprint deletion
\* that delete_blueprint refuses (unknown id, or a deployment of the
\* blueprint exists) changes neither the records nor the directories; an
\* accepted one removes the record first and the directories afterwards,
\* and when it is over nothing about the id is left, so that a later
\* upload under the id meets no leftover and, when it returns 201, leaves
\* under the id exactly what a single upload leaves.
C23_DeleteThenUploadAgain ==
    [][/\ \A c \in Clients :
            /\ (client_pc[c] = "idle" /\ client_pc'[c] = "done") =>
                  /\ client_outcome'[c].kind \in {"NotFound", "DependentExists"}
                  /\ storage' = storage
                  /\ blueprints' = blueprints
                  /\ uploaded' = uploaded
            /\ (client_pc[c] = "idle" /\ client_pc'[c] = "rmtree_blueprint") =>
                  /\ Deleting(c)' \notin DOMAIN storage'
                  /\ blueprints' = blueprints
                  /\ uploaded' = uploaded
            /\ (client_pc[c] = "rmtree_blueprint" /\ client_pc'[c] # client_pc[c])
                  => Deleting(c) \notin DOMAIN blueprints'
            /\ (client_pc[c] = "rmtree_uploaded" /\ client_pc'[c] # client_pc[c])
                  => /\ Absent(Deleting(c))'
                     /\ client_outcome'[c].kind \in {"200", "OSError"}
       /\ \A id \in BlueprintIds :
            /\ (id \in DOMAIN blueprints /\ id \notin DOMAIN blueprints') =>
                  \E c \in Clients : /\ client_pc[c] = "rmtree_blueprint"
                                     /\ Deleting(c) = id
                                     /\ id \notin DOMAIN storage
            /\ (id \in DOMAIN uploaded /\ id \notin DOMAIN uploaded') =>
                  \E c \in Clients : /\ client_pc[c] = "rmtree_uploaded"
                                     /\ Deleting(c) = id
                                     /\ id \notin DOMAIN storage
       /\ \A r \in Requests :
            /\ (pc[r] = "move_blueprint" /\ Steps(r)) =>
                  blueprint_id[r] \notin DOMAIN blueprints
            /\ (pc[r] = "move_archive" /\ Steps(r)) =>
                  blueprint_id[r] \notin DOMAIN uploaded
            /\ (Returns(r) /\ outcome[r].kind = "201") => SingleUpload(r)'
      ]_vars

\* blueprint "X" was published, a deletion of it was answered 200, and a
\* later upload of the same archive under "X" returned 201: the record and
\* both directories are those of the single upload again
C23_Witness ==
    /\ \E c \in Clients : client_outcome[c].kind = "200"
    /\ \E r \in Requests :
          /\ pc[r] = "done"
          /\ outcome[r].kind = "201"
          /\ blueprint_id[r] = PublishedBlueprintId
          /\ SingleUpload(r)
    /\ storage[PublishedBlueprintId].id = PublishedBlueprintId
    /\ blueprints = PublishedBlueprints
    /\ uploaded = PublishedUploaded
    /\ NoRequestInFlight

\* the tables a migration function names in statements of the kind op
TablesOf(statements, op) ==
    {statements[i].table :
        i \in {j \in 1..Len(statements) : statements[j].op = op}}

\* the schema of the database as it is, and as it was found
Schema == SchemaOf(db_types, prior_columns, db_columns)
PriorSchema == SchemaOf({}, prior_columns, {})

\* the tables that hold a column of the type
ColumnsOfType(columns, type) ==
    {t \in DOMAIN columns : \E c \in DOMAIN columns[t] : columns[t][c] = type}

\* every column finds its type in the database
TypesExist ==
    \A t \in DOMAIN Schema.columns : \A c \in DOMAIN Schema.columns[t] :
        Schema.columns[t][c] \in Schema.types \cup {"text"}

\* C24: upgrade() adds the column resource_availability to exactly the
\* tables downgrade() drops it from, no statement of either fails, a
\* column of the enum type exists only while the type exists, after
\* upgrade() the tables hold the column, and after a downgrade() that
\* follows an upgrade() the schema is the prior schema.
C24_MigrationReversible ==
    /\ TablesOf(upgrade, "add_column") = TablesOf(downgrade, "drop_column")
    /\ ~migration_failed
    /\ TypesExist
    /\ (/\ migration_running = "none"
        /\ Len(migration_history) > 0
        /\ migration_history[Len(migration_history)] = "upgrade") =>
          /\ alembic_version = revision
          /\ resource_availability \in Schema.types
          /\ ColumnsOfType(Schema.columns, resource_availability) =
                TablesOf(upgrade, "add_column")
    /\ (/\ migration_running = "none"
        /\ Len(migration_history) > 0
        /\ migration_history[Len(migration_history)] = "downgrade") =>
          /\ alembic_version = down_revision
          /\ Schema = PriorSchema
          /\ Schema \in PriorSchemas

\* upgrade() and then downgrade() ran to their end on a schema whose
\* resource tables hold other columns, and the schema is the prior one
C24_Witness ==
    /\ migration_history = <<"upgrade", "downgrade">>
    /\ migration_running = "none"
    /\ Schema = PriorSchema
    /\ \A t \in ResourceTables :
          DOMAIN Schema.columns[t] = {"id"} \cup ResourceColumns

====
